---- MODULE Spec2Model ----
(***************************************************************************)
(* Model of the smart-card reader monitor (src/src/reader_monitor.cpp) and *)
(* of the presence diff (src/src/reader_state_utils.h).                    *)
(*                                                                         *)
(* Threads: the JavaScript thread (Start, Stop, destructor, delivery of    *)
(* queued events, finalizer of the thread-safe function) and the worker    *)
(* thread running MonitorLoop.  The PC/SC service and the hardware are the *)
(* environment.                                                            *)
(***************************************************************************)
EXTENDS Integers, Sequences, FiniteSets, TLC

VARIABLES
    \* ---- ReaderMonitor members (reader_monitor.h:31-48)
    running_,        \* std::atomic<bool> running_
    contextValid_,   \* bool contextValid_
    context_,        \* SCARDCONTEXT context_ (0 = none, else a context id)
    tsfn_,           \* Napi::ThreadSafeFunction tsfn_ (0 = none, else a channel id)
    monitorThread_,  \* std::thread: "none" or "joinable"
    readerStates_,   \* unordered_map<string, ReaderInfo>
    \* ---- worker thread (MonitorLoop locals and position)
    wpc,             \* "none", "init", "loop", "waiting", "exited"
    iterationCount,  \* int iterationCount
    states,          \* std::vector<SCARD_READERSTATE> states (while waiting)
    readerNames,     \* std::vector<std::string> readerNames (while waiting)
    namesCapacity,   \* readerNames.capacity()
    result,          \* LONG result of the last blocking SCardGetStatusChange
    freshResult,     \* LONG freshResult of the zero-timeout query after a timeout
    refreshResult,   \* LONG refreshResult of the periodic query of this iteration (178)
    pnpTriggered,    \* bool pnpTriggered of the last successful wait (315)
    listResult,      \* LONG result of SCardListReaders in the last UpdateReaderList
    stateResult,     \* LONG stateResult in the last UpdateReaderList (463)
    \* ---- JavaScript thread
    jpc,             \* "idle", "stop_join", "dtor_join", "destroyed", "crashed"
    lastOp,          \* how the last API call returned: "none", "start", "stop", or why
                     \* Start threw: "already_running", "no_callback", "establish_failed"
    nStarts,         \* number of Start calls made so far
    \* ---- thread-safe functions (event channels), one per successful Start
    chanState,       \* "none", "open", "released", "closed"
    chanPending,     \* the queue of the function holds events not yet delivered
    chanQueue,       \* the queued events, oldest first, each by its submission number
    chanSeq,         \* number of events the function has accepted
    chanReceived,    \* submission number of the event its callback was last run for
    \* ---- the event stream of the running session, as submitted
    emitted,         \* events submitted by the step that led to this state
    firstEvent,      \* per reader: type of the first event submitted for it
    cardHist,        \* per reader: types of its last card and detach events
    lastMember,      \* per reader: type of its last attach or detach event
    initReaders,     \* reader names found by the initial refresh
    \* ---- PC/SC service and hardware
    nCtx,            \* contexts established so far
    ctxReleases,     \* SCardReleaseContext calls per context id
    cancelPending,   \* SCardCancel reached a blocked SCardGetStatusChange
    hwReaders,       \* readers attached to the host
    hwCard,          \* card in each reader (0 = none)
    inlineNames,     \* readers whose name std::string keeps in its inline buffer
    envSteps,        \* hardware changes and primitive errors so far
    faults,          \* failures the service may still return outside the blocking wait
    \* ---- presence diff under test (reader_state_utils_test.cpp)
    oldState, newState, diffResult,
    \* ---- card session (src/src/pcsc_card.cpp)
    cardObj,         \* the card object: "none", "alive", "destroyed"
    connected_,      \* PCSCCard::connected_
    card_,           \* PCSCCard::card_ (0 = no handle)
    handleOpen,      \* the service still holds the handle open
    disconnectCalls, \* SCardDisconnect calls made on the handle
    primitiveCalls,  \* calls of any primitive made on the handle
    cardWorkers,     \* queued asynchronous workers, each with its copy of the handle
    cardCalls,       \* method calls made on the card object
    lastCall,        \* the most recent method call and what it returned or threw
    workerResult,    \* result of the most recent worker
    disconnected     \* Disconnect has been called on the connected card

vars == <<running_, contextValid_, context_, tsfn_, monitorThread_, readerStates_,
          wpc, iterationCount, states, readerNames, namesCapacity, result, freshResult,
          refreshResult, pnpTriggered, listResult, stateResult,
          jpc, lastOp, nStarts,
          chanState, chanPending, chanQueue, chanSeq, chanReceived, emitted, firstEvent, cardHist, lastMember, initReaders,
          nCtx, ctxReleases, cancelPending, hwReaders, hwCard, inlineNames, envSteps, faults,
          oldState, newState, diffResult,
          cardObj, connected_, card_, handleOpen, disconnectCalls, primitiveCalls,
          cardWorkers, cardCalls, lastCall, workerResult, disconnected>>

cardVars == <<cardObj, connected_, card_, handleOpen, disconnectCalls, primitiveCalls,
              cardWorkers, cardCalls, lastCall, workerResult, disconnected>>

monitorVars == <<running_, contextValid_, context_, tsfn_, monitorThread_, readerStates_,
          wpc, iterationCount, states, readerNames, namesCapacity, result, freshResult,
          refreshResult, pnpTriggered, listResult, stateResult,
          jpc, lastOp, nStarts,
          chanState, chanPending, chanQueue, chanSeq, chanReceived, emitted, firstEvent, cardHist, lastMember, initReaders,
          nCtx, ctxReleases, cancelPending, hwReaders, hwCard, inlineNames, envSteps, faults,
          oldState, newState, diffResult>>

diffVars == <<oldState, newState, diffResult>>

refreshVars == <<refreshResult, pnpTriggered, listResult, stateResult>>

(***************************************************************************)
(* Bounds                                                                  *)
(***************************************************************************)
MaxStarts == 3       \* Start calls per monitor object (LifeSpec)
MaxSessions == 1     \* Start calls per monitor object (Spec)
HistLen == 3         \* card and detach events remembered per reader
MaxEnvSteps == 2     \* hardware changes plus reported primitive errors
MaxFaults == 3       \* failing service calls outside the blocking wait (FaultySpec)

Readers == {"A", "B"}
Cards == {1}
PnP == "PnP"         \* "\\\\?PnP?\\Notification"

(***************************************************************************)
(* Status flags (winscard.h, included by platform/pcsc.h)                  *)
(***************************************************************************)
SCARD_STATE_UNAWARE == 0
SCARD_STATE_IGNORE == 1
SCARD_STATE_CHANGED == 2
SCARD_STATE_UNKNOWN == 4
SCARD_STATE_EMPTY == 16
SCARD_STATE_PRESENT == 32
STATE_REFRESH_INTERVAL == 10

RECURSIVE BitAnd(_, _)
BitAnd(a, b) ==
    IF a = 0 \/ b = 0 THEN 0
    ELSE (a % 2) * (b % 2) + 2 * BitAnd(a \div 2, b \div 2)

\* x & ~mask
BitClear(x, mask) == x - BitAnd(x, mask)

(***************************************************************************)
(* reader_state_utils.h                                                    *)
(***************************************************************************)
PCSC_STATE_PRESENT == 16

DetectCardStateChange_wholeWord(old, new) ==
    LET wasPresent == old # 0
        isPresent == new # 0
    IN  IF ~wasPresent /\ isPresent THEN "Inserted"
        ELSE IF wasPresent /\ ~isPresent THEN "Removed"
        ELSE "None"

DetectCardStateChange(old, new) ==
    LET wasPresent == BitAnd(old, PCSC_STATE_PRESENT) # 0
        isPresent == BitAnd(new, PCSC_STATE_PRESENT) # 0
    IN  IF ~wasPresent /\ isPresent THEN "Inserted"
        ELSE IF wasPresent /\ ~isPresent THEN "Removed"
        ELSE "None"

\* Flag words the test draws from: every combination of CHANGED (0x02),
\* 0x10, 0x20, INUSE (0x100), which includes the test's OTHER_FLAGS 0x102.
FlagWords == { a + b + c + d : a \in {0, 2}, b \in {0, 16}, c \in {0, 32}, d \in {0, 256} }


(***************************************************************************)
(* PC/SC service: what the primitives report about the hardware            *)
(***************************************************************************)
\* Flags the service reports for reader r: a reader that is gone is UNKNOWN.
HwState(r) ==
    IF r \notin hwReaders THEN SCARD_STATE_UNKNOWN + SCARD_STATE_IGNORE
    ELSE IF hwCard[r] # 0 THEN SCARD_STATE_PRESENT
    ELSE SCARD_STATE_EMPTY

\* ATR bytes the service reports for reader r (cbAtr = 0 without a card).
HwAtr(r) == IF r \in hwReaders /\ hwCard[r] # 0 THEN <<hwCard[r]>> ELSE <<>>

\* SCardGetStatusChange(context_, 0, ...) with every dwCurrentState UNAWARE:
\* the true state of each queried name, flagged CHANGED.
QueryUnaware(names) ==
    [i \in 1..Len(names) |->
        [dwCurrentState |-> SCARD_STATE_UNAWARE,
         dwEventState |-> HwState(names[i]) + SCARD_STATE_CHANGED,
         atr |-> HwAtr(names[i])]]

\* Results of SCardListReaders: the names in any order, "no readers", or an error.
\* "nolength": the first call fails and leaves readersLen 0; "error": a
\* failure after the length was obtained.
ListResults ==
    (IF hwReaders = {} THEN {"noreaders"} ELSE {"ok"}) \cup {"error"}
    \cup (IF faults > 0 THEN {"nolength"} ELSE {})

\* 428: SCARD_E_NO_READERS_AVAILABLE, or readersLen still 0.
ListEmpty(lr) == lr \in {"noreaders", "nolength"}

\* The order in which a set of names is enumerated (the iteration order of
\* the unordered_map, the order of the multi-string): by name.
NameOrder == <<"A", "B">>
MapOrder(S) == SelectSeq(NameOrder, LAMBDA x : x \in S)

Range(s) == { s[i] : i \in 1..Len(s) }

IndexOf(s, x) == CHOOSE i \in 1..Len(s) : s[i] = x

EmptyStore == [r \in {} |-> [lastState |-> 0, atr |-> <<>>]]

EventData(eventType, readerName, state, atr) ==
    [type |-> eventType, reader |-> readerName, state |-> state, atr |-> atr]

(***************************************************************************)
(* ReaderMonitor::UpdateReaderList (reader_monitor.cpp:423-494)            *)
(***************************************************************************)
\* A refresh that starts every enumerated name from scratch.
UpdateReaderList_reset(store, lr, newNames, stateOk) ==
    IF ListEmpty(lr) THEN EmptyStore
    ELSE IF lr # "ok" THEN store
    ELSE LET st == QueryUnaware(newNames)
         IN  [name \in Range(newNames) |->
                LET i == IndexOf(newNames, name)
                IN  IF stateOk
                    THEN [lastState |-> BitClear(st[i].dwEventState, SCARD_STATE_CHANGED),
                          atr |-> st[i].atr]
                    ELSE [lastState |-> SCARD_STATE_UNAWARE, atr |-> <<>>]]

\* A refresh that keeps the entries of names no longer enumerated.
UpdateReaderList_merge(store, lr, newNames, stateOk) ==
    IF ListEmpty(lr) THEN EmptyStore
    ELSE IF lr # "ok" THEN store
    ELSE LET st == QueryUnaware(newNames)
         IN  [name \in Range(newNames) \cup DOMAIN store |->
                IF name \notin Range(newNames) THEN store[name]
                ELSE LET i == IndexOf(newNames, name)
                         info == IF name \in DOMAIN store THEN store[name]
                                 ELSE [lastState |-> SCARD_STATE_UNAWARE, atr |-> <<>>]
                     IN  IF stateOk
                         THEN [lastState |-> BitClear(st[i].dwEventState, SCARD_STATE_CHANGED),
                               atr |-> st[i].atr]
                         ELSE info]

UpdateReaderList(store, lr, newNames, stateOk) ==
    IF ListEmpty(lr) THEN EmptyStore
    ELSE IF lr # "ok" THEN store
    ELSE LET st == QueryUnaware(newNames)
         IN  [name \in Range(newNames) |->
                LET i == IndexOf(newNames, name)
                    info == IF name \in DOMAIN store THEN store[name]
                            ELSE [lastState |-> SCARD_STATE_UNAWARE, atr |-> <<>>]
                IN  IF stateOk
                    THEN [lastState |-> BitClear(st[i].dwEventState, SCARD_STATE_CHANGED),
                          atr |-> st[i].atr]
                    ELSE info]

\* stateResult of UpdateReaderList (463-466): the status query is made only
\* when the enumeration succeeded; it is SCARD_S_SUCCESS without a query when
\* no name was enumerated.
StateResult(lr, newNames, stateOk) ==
    IF lr # "ok" THEN "none"
    ELSE IF Len(newNames) = 0 \/ stateOk THEN "ok"
    ELSE "error"

(***************************************************************************)
(* MonitorLoop: reader-attached for the pre-existing readers (144-150)     *)
(***************************************************************************)
\* A start-up that announces nothing.
InitialAttached_none(store, ord) == <<>>

InitialAttached(store, ord) ==
    [i \in 1..Len(ord) |->
        EventData("reader-attached", ord[i], store[ord[i]].lastState, store[ord[i]].atr)]

(***************************************************************************)
(* MonitorLoop: periodic full state refresh (160-210)                      *)
(***************************************************************************)
\* A loop that refreshes at twice the interval.
RefreshDue_late(count) == count >= 2 * STATE_REFRESH_INTERVAL

\* 160: count is the incremented iterationCount.
RefreshDue(count) == count >= STATE_REFRESH_INTERVAL

\* A refresh that takes the queried flags and ATR of every reader.
RefreshEntry_always(acc, name, rs) ==
    IF name \notin DOMAIN acc.store THEN acc
    ELSE LET oldSt == acc.store[name].lastState
             newSt == BitClear(rs.dwEventState, SCARD_STATE_CHANGED)
             wasPresent == BitAnd(oldSt, SCARD_STATE_PRESENT) # 0
             isPresent == BitAnd(newSt, SCARD_STATE_PRESENT) # 0
         IN  [store |-> [acc.store EXCEPT ![name] = [lastState |-> newSt, atr |-> rs.atr]],
              events |-> IF wasPresent = isPresent THEN acc.events
                         ELSE Append(acc.events,
                                IF isPresent
                                THEN EventData("card-inserted", name, newSt, rs.atr)
                                ELSE EventData("card-removed", name, newSt, <<>>))]

\* One reader of the refresh (180-208).
RefreshEntry(acc, name, rs) ==
    IF name \notin DOMAIN acc.store THEN acc
    ELSE LET oldSt == acc.store[name].lastState
             newSt == BitClear(rs.dwEventState, SCARD_STATE_CHANGED)
             wasPresent == BitAnd(oldSt, SCARD_STATE_PRESENT) # 0
             isPresent == BitAnd(newSt, SCARD_STATE_PRESENT) # 0
         IN  IF wasPresent # isPresent
             THEN [store |-> [acc.store EXCEPT ![name] = [lastState |-> newSt, atr |-> rs.atr]],
                   events |-> Append(acc.events,
                       IF isPresent
                       THEN EventData("card-inserted", name, newSt, rs.atr)
                       ELSE EventData("card-removed", name, newSt, <<>>))]
             ELSE acc

RECURSIVE RefreshLoop(_, _, _, _)
RefreshLoop(acc, refreshNames, refreshStates, i) ==
    IF i > Len(refreshNames) THEN acc
    ELSE RefreshLoop(RefreshEntry(acc, refreshNames[i], refreshStates[i]),
                     refreshNames, refreshStates, i + 1)

(***************************************************************************)
(* MonitorLoop: reconciliation after a timeout, one reader (275-302)       *)
(***************************************************************************)
FreshEntry_noStore(acc, name, fs) ==
    IF name \notin DOMAIN acc.store THEN acc
    ELSE LET freshState == BitClear(fs.dwEventState, SCARD_STATE_CHANGED)
             storedState == acc.store[name].lastState
             wasPresent == BitAnd(storedState, SCARD_STATE_PRESENT) # 0
             isPresent == BitAnd(freshState, SCARD_STATE_PRESENT) # 0
         IN  IF wasPresent # isPresent
             THEN [store |-> acc.store,
                   events |-> Append(acc.events,
                       IF isPresent
                       THEN EventData("card-inserted", name, freshState, fs.atr)
                       ELSE EventData("card-removed", name, freshState, <<>>))]
             ELSE acc

FreshEntry(acc, name, fs) ==
    IF name \notin DOMAIN acc.store THEN acc
    ELSE LET freshState == BitClear(fs.dwEventState, SCARD_STATE_CHANGED)
             storedState == acc.store[name].lastState
             wasPresent == BitAnd(storedState, SCARD_STATE_PRESENT) # 0
             isPresent == BitAnd(freshState, SCARD_STATE_PRESENT) # 0
         IN  IF wasPresent # isPresent
             THEN [store |-> [acc.store EXCEPT ![name] = [lastState |-> freshState, atr |-> fs.atr]],
                   events |-> Append(acc.events,
                       IF isPresent
                       THEN EventData("card-inserted", name, freshState, fs.atr)
                       ELSE EventData("card-removed", name, freshState, <<>>))]
             ELSE acc

\* A timeout that trusts the wait's "no change" and reconciles nothing.
FreshLoop_skip(acc, freshNames, freshStates, i) == acc

RECURSIVE FreshLoop(_, _, _, _)
FreshLoop(acc, freshNames, freshStates, i) ==
    IF i > Len(freshNames) THEN acc
    ELSE FreshLoop(FreshEntry(acc, freshNames[i], freshStates[i]),
                   freshNames, freshStates, i + 1)

(***************************************************************************)
(* push_back on a std::vector<std::string> after c_str() was taken         *)
(* (167-173, 220-229, 262-266)                                             *)
(***************************************************************************)
\* A name no reader has: what the bytes of a moved-from or freed string spell.
Garbage == "?"

\* The capacity a vector of capacity cap has after n push_backs.
RECURSIVE Grow(_, _)
Grow(cap, n) == IF n <= cap THEN cap ELSE Grow(IF cap = 0 THEN 1 ELSE 2 * cap, n)

\* The last of n push_backs on a vector of capacity cap that reallocates
\* (0: none does).
RECURSIVE LastRealloc(_, _)
LastRealloc(cap, n) ==
    IF n <= cap THEN 0
    ELSE LET next == IF cap = 0 THEN 1 ELSE 2 * cap
         IN  IF n <= next THEN cap + 1 ELSE LastRealloc(next, n)

\* The pointer taken after the i-th push_back dangles when a later push_back
\* reallocates and the string keeps its characters inline: the reallocation
\* moves the string object and frees the storage the pointer refers to.
Dangles(name, i, cap, n) == name \in inlineNames /\ i < LastRealloc(cap, n)

\* The names the service can find behind the pointers taken for ord when n
\* names are pushed on a vector of capacity cap. Reading through a dangling
\* pointer is undefined: the old characters, those of another name, or neither.
SeenNames(ord, cap, n) ==
    { seen \in [1..Len(ord) -> Readers \cup {Garbage}] :
        \A i \in 1..Len(ord) : ~Dangles(ord[i], i, cap, n) => seen[i] = ord[i] }

(***************************************************************************)
(* MonitorLoop: the wait-set (213-234)                                     *)
(***************************************************************************)
BuildNames(ord) == Append(ord, PnP)

\* szReader of an entry is the c_str() of the name as it lay in the vector when
\* the entry was made (223, 231); seen[i] is the name the service finds there.
BuildStates(store, ord, seen) ==
    [i \in 1..(Len(ord) + 1) |->
        [szReader |-> IF i <= Len(ord) THEN seen[i] ELSE PnP,
         dwCurrentState |-> IF i <= Len(ord) THEN store[ord[i]].lastState
                            ELSE SCARD_STATE_UNAWARE,
         dwEventState |-> 0,
         atr |-> <<>>]]

\* What a successful blocking SCardGetStatusChange writes into the array: the
\* flagged slots carry the true state of the reader named in the slot plus
\* CHANGED; the sentinel carries CHANGED alone.
WaitAnswer(st, names, flagged) ==
    [i \in 1..Len(st) |->
        IF names[i] = PnP
        THEN [st[i] EXCEPT !.dwEventState = IF i \in flagged THEN SCARD_STATE_CHANGED ELSE 0]
        ELSE [st[i] EXCEPT
                !.dwEventState = HwState(st[i].szReader)
                                 + (IF i \in flagged THEN SCARD_STATE_CHANGED ELSE 0),
                !.atr = HwAtr(st[i].szReader)]]

(***************************************************************************)
(* MonitorLoop: classification of the blocking wait's result (239-311)     *)
(***************************************************************************)
WaitBranch_noExit(run, res) ==
    IF res = "timeout" THEN "timeout"
    ELSE IF res # "success" THEN "error"
    ELSE "success"

\* A classification that leaves the loop only when the wait was cancelled.
WaitBranch_cancelOnly(run, res) ==
    IF res = "cancelled" THEN "exit"
    ELSE IF res = "timeout" THEN "timeout"
    ELSE IF res # "success" THEN "error"
    ELSE "success"

WaitBranch(run, res) ==
    IF ~run THEN "exit"
    ELSE IF res = "cancelled" THEN "exit"
    ELSE IF res = "timeout" THEN "timeout"
    ELSE IF res # "success" THEN "error"
    ELSE "success"

(***************************************************************************)
(* MonitorLoop: reader-list change (322-381)                               *)
(***************************************************************************)
\* A change that announces every reader of the new list.
AttachedEvents_all(store, ordNew, oldNames, i) ==
    [k \in 1..Len(ordNew) |->
        EventData("reader-attached", ordNew[k], store[ordNew[k]].lastState, store[ordNew[k]].atr)]

\* A change that announces no reader.
AttachedEvents_none(store, ordNew, oldNames, i) == <<>>

RECURSIVE AttachedEvents(_, _, _, _)
AttachedEvents(store, ordNew, oldNames, i) ==
    IF i > Len(ordNew) THEN <<>>
    ELSE (IF ordNew[i] \notin Range(oldNames)
          THEN <<EventData("reader-attached", ordNew[i],
                           store[ordNew[i]].lastState, store[ordNew[i]].atr)>>
          ELSE <<>>)
         \o AttachedEvents(store, ordNew, oldNames, i + 1)

\* A change that reports every reader of the old list as detached.
DetachedEvents_all(store, oldNames, i) ==
    [k \in 1..Len(oldNames) |-> EventData("reader-detached", oldNames[k], 0, <<>>)]

\* A change that reports the card of every removed reader as removed.
RECURSIVE DetachedEvents_withCard(_, _, _)
DetachedEvents_withCard(store, oldNames, i) ==
    IF i > Len(oldNames) THEN <<>>
    ELSE (IF oldNames[i] \notin DOMAIN store
          THEN <<EventData("card-removed", oldNames[i], 0, <<>>),
                 EventData("reader-detached", oldNames[i], 0, <<>>)>>
          ELSE <<>>)
         \o DetachedEvents_withCard(store, oldNames, i + 1)

RECURSIVE DetachedEvents(_, _, _)
DetachedEvents(store, oldNames, i) ==
    IF i > Len(oldNames) THEN <<>>
    ELSE (IF oldNames[i] \notin DOMAIN store
          THEN <<EventData("reader-detached", oldNames[i], 0, <<>>)>>
          ELSE <<>>)
         \o DetachedEvents(store, oldNames, i + 1)

\* A change that does not compare card presence.
PresenceEvents_none(store, ordNew, oldReaderStates, i) == <<>>

\* A change that compares a reader that was not in the store with an empty one.
RECURSIVE PresenceEvents_newToo(_, _, _, _)
PresenceEvents_newToo(store, ordNew, oldReaderStates, i) ==
    IF i > Len(ordNew) THEN <<>>
    ELSE LET name == ordNew[i]
             oldSt == IF name \in DOMAIN oldReaderStates
                      THEN oldReaderStates[name].lastState ELSE SCARD_STATE_UNAWARE
             newSt == store[name].lastState
             wasPresent == BitAnd(oldSt, SCARD_STATE_PRESENT) # 0
             isPresent == BitAnd(newSt, SCARD_STATE_PRESENT) # 0
         IN  (IF ~wasPresent /\ isPresent
              THEN <<EventData("card-inserted", name, newSt, store[name].atr)>>
              ELSE IF wasPresent /\ ~isPresent
              THEN <<EventData("card-removed", name, newSt, <<>>)>>
              ELSE <<>>)
             \o PresenceEvents_newToo(store, ordNew, oldReaderStates, i + 1)

RECURSIVE PresenceEvents(_, _, _, _)
PresenceEvents(store, ordNew, oldReaderStates, i) ==
    IF i > Len(ordNew) THEN <<>>
    ELSE LET name == ordNew[i]
         IN  (IF name \notin DOMAIN oldReaderStates THEN <<>>
              ELSE LET oldSt == oldReaderStates[name].lastState
                       newSt == store[name].lastState
                       wasPresent == BitAnd(oldSt, SCARD_STATE_PRESENT) # 0
                       isPresent == BitAnd(newSt, SCARD_STATE_PRESENT) # 0
                   IN  IF ~wasPresent /\ isPresent
                       THEN <<EventData("card-inserted", name, newSt, store[name].atr)>>
                       ELSE IF wasPresent /\ ~isPresent
                       THEN <<EventData("card-removed", name, newSt, <<>>)>>
                       ELSE <<>>)
             \o PresenceEvents(store, ordNew, oldReaderStates, i + 1)

\* pnp: the inputs of the refresh: listResult, newNames, stateOk.
PnPChange(acc, pnp) ==
    LET oldReaderStates == acc.store
        oldNames == MapOrder(DOMAIN acc.store)
        store == UpdateReaderList(acc.store, pnp.listResult, pnp.newNames, pnp.stateOk)
        ordNew == MapOrder(DOMAIN store)
    IN  [store |-> store,
         events |-> acc.events
                    \o AttachedEvents(store, ordNew, oldNames, 1)
                    \o DetachedEvents(store, oldNames, 1)
                    \o PresenceEvents(store, ordNew, oldReaderStates, 1)]

(***************************************************************************)
(* MonitorLoop: one changed reader entry of a successful wait (387-414)    *)
(***************************************************************************)
\* The name a slot of the result is attributed to.
SlotName_stale(names, store, i) == names[1]

SlotName(names, store, i) == names[i]

\* A card-removed event that carries the ATR of the card that was removed.
ChangedEntry_removedAtr(acc, readerName, s) ==
    IF readerName \notin DOMAIN acc.store THEN acc
    ELSE LET oldSt == acc.store[readerName].lastState
             newSt == s.dwEventState
             wasPresent == BitAnd(oldSt, SCARD_STATE_PRESENT) # 0
             isPresent == BitAnd(newSt, SCARD_STATE_PRESENT) # 0
             store == [acc.store EXCEPT ![readerName] =
                          [lastState |-> BitClear(newSt, SCARD_STATE_CHANGED), atr |-> s.atr]]
         IN  [store |-> store,
              events |-> acc.events \o
                  (IF ~wasPresent /\ isPresent
                   THEN <<EventData("card-inserted", readerName, newSt, s.atr)>>
                   ELSE IF wasPresent /\ ~isPresent
                   THEN <<EventData("card-removed", readerName, newSt,
                                    acc.store[readerName].atr)>>
                   ELSE <<>>)]

\* An entry stored as the wait reported it.
ChangedEntry_unmasked(acc, readerName, s) ==
    IF readerName \notin DOMAIN acc.store THEN acc
    ELSE [store |-> [acc.store EXCEPT ![readerName] =
                        [lastState |-> s.dwEventState, atr |-> s.atr]],
          events |-> acc.events]

\* An entry whose card event carries the flags stored before the change.
ChangedEntry_oldFlags(acc, readerName, s) ==
    IF readerName \notin DOMAIN acc.store THEN acc
    ELSE LET oldSt == acc.store[readerName].lastState
             newSt == s.dwEventState
             wasPresent == BitAnd(oldSt, SCARD_STATE_PRESENT) # 0
             isPresent == BitAnd(newSt, SCARD_STATE_PRESENT) # 0
             store == [acc.store EXCEPT ![readerName] =
                          [lastState |-> BitClear(newSt, SCARD_STATE_CHANGED), atr |-> s.atr]]
         IN  [store |-> store,
              events |-> acc.events \o
                  (IF ~wasPresent /\ isPresent
                   THEN <<EventData("card-inserted", readerName, oldSt, s.atr)>>
                   ELSE IF wasPresent /\ ~isPresent
                   THEN <<EventData("card-removed", readerName, oldSt, <<>>)>>
                   ELSE <<>>)]

ChangedEntry(acc, readerName, s) ==
    IF readerName \notin DOMAIN acc.store THEN acc
    ELSE LET oldSt == acc.store[readerName].lastState
             newSt == s.dwEventState
             wasPresent == BitAnd(oldSt, SCARD_STATE_PRESENT) # 0
             isPresent == BitAnd(newSt, SCARD_STATE_PRESENT) # 0
             store == [acc.store EXCEPT ![readerName] =
                          [lastState |-> BitClear(newSt, SCARD_STATE_CHANGED), atr |-> s.atr]]
         IN  [store |-> store,
              events |-> acc.events \o
                  (IF ~wasPresent /\ isPresent
                   THEN <<EventData("card-inserted", readerName, newSt, s.atr)>>
                   ELSE IF wasPresent /\ ~isPresent
                   THEN <<EventData("card-removed", readerName, newSt, <<>>)>>
                   ELSE <<>>)]

\* pnpTriggered (315, 324): the sentinel entry of the result is flagged.
PnPTriggered(st, names) ==
    \E i \in 1..Len(st) :
        names[i] = PnP /\ BitAnd(st[i].dwEventState, SCARD_STATE_CHANGED) # 0

\* A loop that applies every reader entry, flagged or not.
RECURSIVE ProcessChanges_all(_, _, _, _, _)
ProcessChanges_all(acc, st, names, pnp, i) ==
    IF i > Len(st) THEN acc
    ELSE IF names[i] = PnP
    THEN (IF BitAnd(st[i].dwEventState, SCARD_STATE_CHANGED) = 0
          THEN acc ELSE PnPChange(acc, pnp))
    ELSE ProcessChanges_all(ChangedEntry(acc, SlotName(names, acc.store, i), st[i]),
                            st, names, pnp, i + 1)

\* A loop that handles the sentinel entry alone when it is flagged.
RECURSIVE ProcessChanges_deferred(_, _, _, _, _)
ProcessChanges_deferred(acc, st, names, pnp, i) ==
    IF i > Len(st) THEN acc
    ELSE IF BitAnd(st[i].dwEventState, SCARD_STATE_CHANGED) = 0
    THEN ProcessChanges_deferred(acc, st, names, pnp, i + 1)
    ELSE IF names[i] = PnP
    THEN PnPChange(acc, pnp)
    ELSE IF PnPTriggered(st, names)
    THEN ProcessChanges_deferred(acc, st, names, pnp, i + 1)
    ELSE ProcessChanges_deferred(ChangedEntry(acc, SlotName(names, acc.store, i), st[i]),
                                 st, names, pnp, i + 1)

\* The for loop over the result array (317-415); the sentinel entry ends it.
RECURSIVE ProcessChanges(_, _, _, _, _)
ProcessChanges(acc, st, names, pnp, i) ==
    IF i > Len(st) THEN acc
    ELSE IF BitAnd(st[i].dwEventState, SCARD_STATE_CHANGED) = 0
    THEN ProcessChanges(acc, st, names, pnp, i + 1)
    ELSE IF names[i] = PnP
    THEN PnPChange(acc, pnp)
    ELSE ProcessChanges(ChangedEntry(acc, SlotName(names, acc.store, i), st[i]),
                        st, names, pnp, i + 1)


(***************************************************************************)
(* ReaderMonitor::EmitEvent (496-524): NonBlockingCall on tsfn_; the       *)
(* status is ignored.  A thread-safe function accepts calls until it has   *)
(* been finalized.                                                         *)
(***************************************************************************)
CardTypes == {"card-inserted", "card-removed"}

\* The stream observed at submission: per reader, the first event and the
\* last HistLen card and detach events.
RECURSIVE ObserveFirst(_, _, _)
ObserveFirst(first, events, i) ==
    IF i > Len(events) THEN first
    ELSE LET e == events[i]
         IN  ObserveFirst(IF e.reader \in Readers /\ first[e.reader] = "none"
                          THEN [first EXCEPT ![e.reader] = e.type] ELSE first,
                          events, i + 1)

\* The last HistLen entries of h with x appended.
Remember(h, x) ==
    LET hx == Append(h, x)
    IN  IF Len(hx) > HistLen THEN SubSeq(hx, Len(hx) - HistLen + 1, Len(hx)) ELSE hx

RECURSIVE ObserveHist(_, _, _)
ObserveHist(hist, events, i) ==
    IF i > Len(events) THEN hist
    ELSE LET e == events[i]
         IN  ObserveHist(IF e.reader \in Readers
                            /\ e.type \in CardTypes \cup {"reader-detached"}
                         THEN [hist EXCEPT ![e.reader] = Remember(@, e.type)] ELSE hist,
                         events, i + 1)

MemberTypes == {"reader-attached", "reader-detached"}

RECURSIVE ObserveMember(_, _, _)
ObserveMember(last, events, i) ==
    IF i > Len(events) THEN last
    ELSE LET e == events[i]
         IN  ObserveMember(IF e.reader \in Readers /\ e.type \in MemberTypes
                           THEN [last EXCEPT ![e.reader] = e.type] ELSE last,
                           events, i + 1)

\* NonBlockingCall (503), once per event of a step: the events numbered
\* n+1 .. n+k join the queue q.
Enqueue_front(q, n, k) == [i \in 1..k |-> n + i] \o q

Enqueue(q, n, k) == q \o [i \in 1..k |-> n + i]

\* A call that waits while a queue of one event is full.
CanSubmit_bounded(q) == Len(q) < 1

\* NonBlockingCall on a function made with queue size 0, unlimited (87, 503):
\* the call returns without waiting, whatever the queue q holds.
CanSubmit(q) == TRUE

\* The event the call_js lambda is run for next.
Oldest(q) == Head(q)

EmitEvents(events) ==
    /\ emitted' = events
    /\ IF events # <<>> /\ tsfn_ # 0 /\ chanState[tsfn_] \in {"open", "released"}
       THEN /\ CanSubmit(chanQueue[tsfn_])
            /\ chanPending' = [chanPending EXCEPT ![tsfn_] = TRUE]
            /\ chanQueue' = [chanQueue EXCEPT ![tsfn_] = Enqueue(@, chanSeq[tsfn_], Len(events))]
            /\ chanSeq' = [chanSeq EXCEPT ![tsfn_] = @ + Len(events)]
       ELSE UNCHANGED <<chanPending, chanQueue, chanSeq>>
    /\ UNCHANGED chanReceived
    /\ firstEvent' = ObserveFirst(firstEvent, events, 1)
    /\ cardHist' = ObserveHist(cardHist, events, 1)
    /\ lastMember' = ObserveMember(lastMember, events, 1)

NoEvents == emitted' = <<>> /\ UNCHANGED <<firstEvent, cardHist, lastMember>>

WorkerAlive == jpc \notin {"destroyed", "crashed"}

(***************************************************************************)
(* Initial state: ReaderMonitor::ReaderMonitor (34-39)                     *)
(***************************************************************************)
\* No card object exists (the monitor never creates one).
CardNone ==
    /\ cardObj = "none"
    /\ connected_ = FALSE
    /\ card_ = 0
    /\ handleOpen = FALSE
    /\ disconnectCalls = 0
    /\ primitiveCalls = 0
    /\ cardWorkers = <<>>
    /\ cardCalls = 0
    /\ lastCall = [op |-> "none", outcome |-> "none"]
    /\ workerResult = "none"
    /\ disconnected = FALSE

MonitorInit ==
    /\ running_ = FALSE
    /\ contextValid_ = FALSE
    /\ context_ = 0
    /\ tsfn_ = 0
    /\ monitorThread_ = "none"
    /\ readerStates_ = EmptyStore
    /\ wpc = "none"
    /\ iterationCount = 0
    /\ states = <<>>
    /\ readerNames = <<>>
    /\ namesCapacity = 0
    /\ result = "none"
    /\ freshResult = "none"
    /\ refreshResult = "none"
    /\ pnpTriggered = FALSE
    /\ listResult = "none"
    /\ stateResult = "none"
    /\ jpc = "idle"
    /\ lastOp = "none"
    /\ nStarts = 0
    /\ chanState = [c \in 1..MaxStarts |-> "none"]
    /\ chanPending = [c \in 1..MaxStarts |-> FALSE]
    /\ chanQueue = [c \in 1..MaxStarts |-> <<>>]
    /\ chanSeq = [c \in 1..MaxStarts |-> 0]
    /\ chanReceived = [c \in 1..MaxStarts |-> 0]
    /\ emitted = <<>>
    /\ firstEvent = [r \in Readers |-> "none"]
    /\ cardHist = [r \in Readers |-> <<>>]
    /\ lastMember = [r \in Readers |-> "none"]
    /\ initReaders = {}
    /\ nCtx = 0
    /\ ctxReleases = [c \in 1..MaxStarts |-> 0]
    /\ cancelPending = FALSE
    /\ envSteps = 0
    /\ CardNone

\* The hardware the monitor is started on: any readers, any cards in them.
HwInit ==
    /\ hwReaders \in SUBSET Readers
    /\ hwCard \in [Readers -> {0} \cup Cards]
    /\ \A r \in Readers : r \notin hwReaders => hwCard[r] = 0

Init ==
    /\ MonitorInit
    /\ HwInit
    /\ faults = 0 /\ inlineNames = {}
    /\ oldState = 0 /\ newState = 0 /\ diffResult = "unset"

(***************************************************************************)
(* ReaderMonitor::Start (58-100)                                           *)
(***************************************************************************)
\* The tests Start makes before it changes anything (61-79).
StartOutcome_noEstablishCheck(run, hasCallback, establishOk) ==
    IF run THEN "already_running"
    ELSE IF ~hasCallback THEN "no_callback"
    ELSE "ok"

StartOutcome(run, hasCallback, establishOk) ==
    IF run THEN "already_running"
    ELSE IF ~hasCallback THEN "no_callback"
    ELSE IF ~establishOk THEN "establish_failed"
    ELSE "ok"

Start ==
    /\ jpc = "idle"
    /\ nStarts < MaxStarts
    /\ nStarts' = nStarts + 1
    /\ emitted' = <<>>
    /\ \E hasCallback \in BOOLEAN, establishOk \in BOOLEAN :
        LET outcome == StartOutcome(running_, hasCallback, establishOk)
        IN
        IF outcome # "ok"
        THEN \* an exception is thrown to the caller; nothing else changes
             /\ lastOp' = outcome
             /\ UNCHANGED <<running_, contextValid_, context_, tsfn_, monitorThread_,
                            readerStates_, wpc, iterationCount, states, readerNames, namesCapacity,
                            result, freshResult, jpc, chanState, chanPending, chanQueue, chanSeq, chanReceived,
                            firstEvent, cardHist, lastMember, initReaders,
                            nCtx, ctxReleases, cancelPending>>
        ELSE \* SCardEstablishContext writes context_ only when it succeeds
             /\ nCtx' = IF establishOk THEN nCtx + 1 ELSE nCtx
             /\ context_' = IF establishOk THEN nCtx + 1 ELSE context_
             /\ contextValid_' = TRUE
             /\ tsfn_' = nStarts + 1
             /\ chanState' = [chanState EXCEPT ![nStarts + 1] = "open"]
             /\ running_' = TRUE
             /\ lastOp' = "start"
             /\ IF monitorThread_ = "joinable"
                THEN \* move-assignment to a joinable std::thread: std::terminate
                     /\ jpc' = "crashed"
                     /\ UNCHANGED <<monitorThread_, wpc, iterationCount, states,
                                    readerNames, namesCapacity, result, freshResult,
                                    firstEvent, cardHist, lastMember, initReaders>>
                ELSE /\ monitorThread_' = "joinable"
                     /\ wpc' = "init"
                     /\ iterationCount' = 0
                     /\ states' = <<>>
                     /\ readerNames' = <<>>
                     /\ namesCapacity' = 0
                     /\ result' = "none"
                     /\ freshResult' = "none"
                     /\ firstEvent' = [r \in Readers |-> "none"]
                     /\ cardHist' = [r \in Readers |-> <<>>]
                     /\ lastMember' = [r \in Readers |-> "none"]
                     /\ initReaders' = {}
                     /\ UNCHANGED jpc
             /\ UNCHANGED <<readerStates_, chanPending, chanQueue, chanSeq, chanReceived, ctxReleases, cancelPending>>
    /\ UNCHANGED <<hwReaders, hwCard, envSteps, faults, diffVars, inlineNames, cardVars, refreshVars>>

(***************************************************************************)
(* ReaderMonitor::Stop (102-134), up to the join and from the join on      *)
(***************************************************************************)
\* SCardCancel(context_): unblocks a SCardGetStatusChange that is blocked now.
Cancel == IF contextValid_ /\ wpc = "waiting" THEN TRUE ELSE cancelPending

\* What a teardown primitive can return: success, or a failure while the
\* environment has failures left.
PrimitiveResults(called) ==
    IF called /\ faults > 0 THEN {"ok", "error"} ELSE {"ok"}

Failures(rcs) == Cardinality({i \in DOMAIN rcs : rcs[i] = "error"})

StopBegin_keepsRunning ==
    /\ jpc = "idle"
    /\ NoEvents
    /\ IF ~running_
       THEN /\ lastOp' = "stop"
            /\ UNCHANGED <<running_, cancelPending, jpc, faults>>
       ELSE /\ running_' = TRUE
            /\ \E rc \in PrimitiveResults(contextValid_) :
                 /\ cancelPending' = IF rc = "ok" THEN Cancel ELSE cancelPending
                 /\ faults' = faults - Failures(<<rc>>)
            /\ jpc' = "stop_join"
            /\ UNCHANGED lastOp
    /\ UNCHANGED <<contextValid_, context_, tsfn_, monitorThread_, readerStates_,
                   wpc, iterationCount, states, readerNames, namesCapacity, result, freshResult, nStarts,
                   chanState, chanPending, chanQueue, chanSeq, chanReceived, initReaders,
                   nCtx, ctxReleases, hwReaders, hwCard, envSteps, diffVars, inlineNames, cardVars, refreshVars>>

\* A Stop that tears down whether or not the monitor is running.
StopBegin_always ==
    /\ jpc = "idle"
    /\ NoEvents
    /\ running_' = FALSE
    /\ \E rc \in PrimitiveResults(contextValid_) :
         /\ cancelPending' = IF rc = "ok" THEN Cancel ELSE cancelPending
         /\ faults' = faults - Failures(<<rc>>)
    /\ jpc' = "stop_join"
    /\ UNCHANGED lastOp
    /\ UNCHANGED <<contextValid_, context_, tsfn_, monitorThread_, readerStates_,
                   wpc, iterationCount, states, readerNames, namesCapacity, result, freshResult, nStarts,
                   chanState, chanPending, chanQueue, chanSeq, chanReceived, initReaders,
                   nCtx, ctxReleases, hwReaders, hwCard, envSteps, diffVars, inlineNames, cardVars, refreshVars>>

StopBegin ==
    /\ jpc = "idle"
    /\ NoEvents
    /\ IF ~running_
       THEN /\ lastOp' = "stop"
            /\ UNCHANGED <<running_, cancelPending, jpc, faults>>
       ELSE /\ running_' = FALSE
            /\ \E rc \in PrimitiveResults(contextValid_) :
                 /\ cancelPending' = IF rc = "ok" THEN Cancel ELSE cancelPending
                 /\ faults' = faults - Failures(<<rc>>)
            /\ jpc' = "stop_join"
            /\ UNCHANGED lastOp
    /\ UNCHANGED <<contextValid_, context_, tsfn_, monitorThread_, readerStates_,
                   wpc, iterationCount, states, readerNames, namesCapacity, result, freshResult, nStarts,
                   chanState, chanPending, chanQueue, chanSeq, chanReceived, initReaders,
                   nCtx, ctxReleases, hwReaders, hwCard, envSteps, diffVars, inlineNames, cardVars, refreshVars>>

\* A join that does not wait for the worker.
JoinReturns_noWait == TRUE

\* monitorThread_.join() returns once the worker has left MonitorLoop.
JoinReturns == monitorThread_ = "joinable" => wpc = "exited"

\* A teardown that leaves the context with the service.
ReleaseContext_none == UNCHANGED ctxReleases

\* SCardReleaseContext(context_) when contextValid_.
ReleaseContext ==
    ctxReleases' = IF contextValid_ /\ context_ # 0
                   THEN [ctxReleases EXCEPT ![context_] = @ + 1]
                   ELSE ctxReleases

StopFinish ==
    /\ jpc = "stop_join"
    /\ JoinReturns
    /\ NoEvents
    /\ monitorThread_' = "none"
    /\ wpc' = IF wpc = "exited" THEN "none" ELSE wpc
    /\ \E channelRc \in PrimitiveResults(TRUE), releaseRc \in PrimitiveResults(contextValid_) :
         /\ Failures(<<channelRc, releaseRc>>) <= faults
         /\ faults' = faults - Failures(<<channelRc, releaseRc>>)
         /\ chanState' = IF tsfn_ # 0 /\ chanState[tsfn_] = "open" /\ channelRc = "ok"
                         THEN [chanState EXCEPT ![tsfn_] = "released"]
                         ELSE chanState
    /\ ReleaseContext
    /\ contextValid_' = FALSE
    /\ context_' = 0
    /\ readerStates_' = EmptyStore
    /\ jpc' = "idle"
    /\ lastOp' = "stop"
    /\ IF wpc = "exited"
       THEN /\ iterationCount' = 0 /\ states' = <<>> /\ readerNames' = <<>>
            /\ namesCapacity' = 0
            /\ result' = "none" /\ freshResult' = "none"
            /\ refreshResult' = "none"
            /\ pnpTriggered' = FALSE /\ listResult' = "none" /\ stateResult' = "none"
       ELSE UNCHANGED <<iterationCount, states, readerNames, namesCapacity, result, freshResult,
                        refreshVars>>
    /\ UNCHANGED <<running_, tsfn_, nStarts, chanPending, chanQueue, chanSeq, chanReceived, initReaders,
                   nCtx, cancelPending, hwReaders, hwCard, envSteps, diffVars, inlineNames, cardVars>>

(***************************************************************************)
(* ReaderMonitor::~ReaderMonitor (41-56)                                   *)
(***************************************************************************)
Destroy ==
    /\ jpc = "idle"
    /\ NoEvents
    /\ IF running_
       THEN /\ running_' = FALSE
            /\ cancelPending' = Cancel
            /\ jpc' = "dtor_join"
            /\ UNCHANGED ctxReleases
       ELSE /\ ReleaseContext
            \* a std::thread member still joinable is destroyed: std::terminate
            /\ jpc' = IF monitorThread_ = "joinable" THEN "crashed" ELSE "destroyed"
            /\ UNCHANGED <<running_, cancelPending>>
    /\ UNCHANGED <<contextValid_, context_, tsfn_, monitorThread_, readerStates_,
                   wpc, iterationCount, states, readerNames, namesCapacity, result, freshResult,
                   lastOp, nStarts, chanState, chanPending, chanQueue, chanSeq, chanReceived,
                   initReaders, nCtx, hwReaders, hwCard, envSteps, faults, diffVars, inlineNames, cardVars, refreshVars>>

DestroyFinish ==
    /\ jpc = "dtor_join"
    /\ JoinReturns
    /\ NoEvents
    /\ monitorThread_' = "none"
    /\ ReleaseContext
    /\ jpc' = "destroyed"
    /\ UNCHANGED <<running_, contextValid_, context_, tsfn_, readerStates_,
                   wpc, iterationCount, states, readerNames, namesCapacity, result, freshResult,
                   lastOp, nStarts, chanState, chanPending, chanQueue, chanSeq, chanReceived,
                   initReaders, nCtx, cancelPending, hwReaders, hwCard, envSteps, faults, diffVars, inlineNames, cardVars, refreshVars>>

(***************************************************************************)
(* The thread-safe function: the call_js lambda of EmitEvent (504-520) is  *)
(* run on the JavaScript thread for the oldest queued event; once a        *)
(* released function has drained its queue it is finalized, which runs the *)
(* finalizer given to ThreadSafeFunction::New (89-92) and destroys the     *)
(* function with its queue.                                                *)
(***************************************************************************)
Deliver(c) ==
    /\ jpc \in {"idle", "destroyed"}
    /\ chanState[c] \in {"open", "released"}
    /\ chanPending[c]
    /\ LET e == Oldest(chanQueue[c])
           rest == SelectSeq(chanQueue[c], LAMBDA x : x # e)
       IN  /\ chanReceived' = [chanReceived EXCEPT ![c] = e]
           /\ chanQueue' = [chanQueue EXCEPT ![c] = rest]
           /\ chanPending' = [chanPending EXCEPT ![c] = rest # <<>>]
    /\ UNCHANGED chanSeq
    /\ NoEvents
    /\ UNCHANGED <<running_, contextValid_, context_, tsfn_, monitorThread_, readerStates_,
                   wpc, iterationCount, states, readerNames, namesCapacity, result, freshResult,
                   jpc, lastOp, nStarts, chanState, initReaders,
                   nCtx, ctxReleases, cancelPending, hwReaders, hwCard, envSteps, faults, diffVars, inlineNames, cardVars, refreshVars>>

Finalize(c) ==
    /\ jpc = "idle"
    /\ chanState[c] = "released"
    /\ ~chanPending[c]
    /\ chanState' = [chanState EXCEPT ![c] = "closed"]
    /\ running_' = FALSE
    /\ chanSeq' = [chanSeq EXCEPT ![c] = 0]
    /\ chanReceived' = [chanReceived EXCEPT ![c] = 0]
    /\ NoEvents
    /\ UNCHANGED <<contextValid_, context_, tsfn_, monitorThread_, readerStates_,
                   wpc, iterationCount, states, readerNames, namesCapacity, result, freshResult,
                   jpc, lastOp, nStarts, chanPending, chanQueue, initReaders,
                   nCtx, ctxReleases, cancelPending, hwReaders, hwCard, envSteps, faults, diffVars, inlineNames, cardVars, refreshVars>>

(***************************************************************************)
(* ReaderMonitor::MonitorLoop (140-421), cut at the blocking wait          *)
(***************************************************************************)
\* Positions from which the worker's step accesses the store inside a
\* lock_guard on mutex_ (162, 215, 252, 314); the initial refresh (142) is made
\* before the first lock (146).
LockedSteps == {"loop", "waiting"}

workerFrame == <<running_, contextValid_, context_, tsfn_, monitorThread_,
                 jpc, lastOp, nStarts, chanState,
                 nCtx, ctxReleases, hwReaders, hwCard, diffVars, inlineNames, cardVars>>

\* 141-155: initial refresh, reader-attached for the readers found.
W_Init ==
    /\ WorkerAlive
    /\ wpc = "init"
    /\ \E lr \in ListResults, stateOk \in BOOLEAN :
        LET store == UpdateReaderList(readerStates_, lr, MapOrder(hwReaders), stateOk)
        IN  /\ readerStates_' = store
            /\ listResult' = lr
            /\ stateResult' = StateResult(lr, MapOrder(hwReaders), stateOk)
            /\ initReaders' = DOMAIN store
            /\ EmitEvents(InitialAttached(store, MapOrder(DOMAIN store)))
    /\ iterationCount' = 0
    /\ namesCapacity' = 0
    /\ wpc' = "loop"
    /\ UNCHANGED <<states, readerNames, result, freshResult, refreshResult,
                   pnpTriggered, cancelPending, envSteps>>
    /\ UNCHANGED workerFrame /\ UNCHANGED faults

\* 157-237: the loop test, the periodic refresh, the wait-set, and the call of
\* the blocking SCardGetStatusChange.
W_Loop ==
    /\ WorkerAlive
    /\ wpc = "loop"
    /\ IF ~running_
       THEN /\ wpc' = "exited"
            /\ NoEvents
            /\ UNCHANGED <<readerStates_, iterationCount, states, readerNames, namesCapacity,
                           chanPending, chanQueue, chanSeq, chanReceived, result, freshResult, refreshVars>>
       ELSE \E refreshOk \in BOOLEAN,
               refreshSeen \in SeenNames(MapOrder(DOMAIN readerStates_), 0,
                                         Cardinality(DOMAIN readerStates_)),
               seen \in SeenNames(MapOrder(DOMAIN readerStates_), namesCapacity,
                                  Cardinality(DOMAIN readerStates_) + 1) :
              LET ord == MapOrder(DOMAIN readerStates_)
                  due == RefreshDue(iterationCount + 1)
                  acc0 == [store |-> readerStates_, events |-> <<>>]
                  acc == IF due /\ Len(ord) > 0 /\ refreshOk
                         THEN RefreshLoop(acc0, ord, QueryUnaware(refreshSeen), 1)
                         ELSE acc0
              IN  /\ iterationCount' = IF due THEN 0 ELSE iterationCount + 1
                  /\ namesCapacity' = Grow(namesCapacity, Len(ord) + 1)
                  /\ readerStates_' = acc.store
                  /\ EmitEvents(acc.events)
                  /\ readerNames' = BuildNames(ord)
                  /\ states' = BuildStates(acc.store, ord, seen)
                  /\ result' = "none"
                  /\ freshResult' = "none"
                  /\ refreshResult' = IF ~due \/ Len(ord) = 0 THEN "none"
                                      ELSE IF refreshOk THEN "success" ELSE "error"
                  /\ pnpTriggered' = FALSE
                  /\ listResult' = "none"
                  /\ stateResult' = "none"
                  /\ wpc' = "waiting"
    /\ UNCHANGED <<initReaders, cancelPending, envSteps>>
    /\ UNCHANGED workerFrame /\ UNCHANGED faults

\* Results the blocking call can return: "cancelled" only after a SCardCancel.
WaitResults == {"success", "timeout", "error"}
               \cup (IF cancelPending THEN {"cancelled"} ELSE {})

\* 239-245: Stop was requested, or the wait was cancelled: leave the loop.
W_WaitExit ==
    /\ WorkerAlive
    /\ wpc = "waiting"
    /\ \E res \in WaitResults :
        /\ WaitBranch(running_, res) = "exit"
        /\ result' = res
    /\ wpc' = "exited"
    /\ cancelPending' = FALSE
    /\ NoEvents
    /\ states' = <<>> /\ readerNames' = <<>>
    /\ UNCHANGED namesCapacity
    /\ UNCHANGED <<readerStates_, iterationCount, freshResult,
                   chanPending, chanQueue, chanSeq, chanReceived, initReaders, envSteps, refreshVars>>
    /\ UNCHANGED workerFrame /\ UNCHANGED faults

\* 247-304: timeout: zero-timeout query of every stored reader, reconciliation.
W_WaitTimeout ==
    /\ WorkerAlive
    /\ wpc = "waiting"
    /\ WaitBranch(running_, "timeout") = "timeout"
    /\ result' = "timeout"
    /\ \E freshOk \in BOOLEAN,
          freshSeen \in SeenNames(MapOrder(DOMAIN readerStates_), 0,
                                  Cardinality(DOMAIN readerStates_)) :
        LET ord == MapOrder(DOMAIN readerStates_)
            acc0 == [store |-> readerStates_, events |-> <<>>]
            acc == IF Len(ord) > 0 /\ freshOk
                   THEN FreshLoop(acc0, ord, QueryUnaware(freshSeen), 1)
                   ELSE acc0
        IN  /\ freshResult' = IF Len(ord) = 0 THEN "none"
                              ELSE IF freshOk THEN "success" ELSE "error"
            /\ readerStates_' = acc.store
            /\ EmitEvents(acc.events)
    /\ wpc' = "loop"
    /\ cancelPending' = FALSE
    /\ states' = <<>> /\ readerNames' = <<>>
    /\ UNCHANGED namesCapacity
    /\ UNCHANGED <<iterationCount, initReaders, envSteps, refreshVars>>
    /\ UNCHANGED workerFrame /\ UNCHANGED faults

\* 306-311: any other failure: an error event, then the next iteration.
W_WaitError ==
    /\ WorkerAlive
    /\ wpc = "waiting"
    /\ envSteps < MaxEnvSteps
    /\ \E res \in WaitResults \ {"timeout", "success"} :
        /\ WaitBranch(running_, res) = "error"
        /\ result' = res
        /\ EmitEvents(<<EventData("error", res, 0, <<>>)>>)
    /\ envSteps' = envSteps + 1
    /\ wpc' = "loop"
    /\ cancelPending' = FALSE
    /\ states' = <<>> /\ readerNames' = <<>>
    /\ UNCHANGED namesCapacity
    /\ UNCHANGED <<readerStates_, iterationCount, freshResult, initReaders, refreshVars>>
    /\ UNCHANGED workerFrame /\ UNCHANGED faults

\* 313-419: success: the changed entries are applied.
W_WaitSuccess ==
    /\ WorkerAlive
    /\ wpc = "waiting"
    /\ WaitBranch(running_, "success") = "success"
    /\ result' = "success"
    /\ \E flagged \in (SUBSET (1..Len(states))) \ {{}},
          lr \in ListResults, stateOk \in BOOLEAN :
          LET st == WaitAnswer(states, readerNames, flagged)
              pnp == [listResult |-> lr, newNames |-> MapOrder(hwReaders),
                      stateOk |-> stateOk]
              acc == ProcessChanges([store |-> readerStates_, events |-> <<>>],
                                    st, readerNames, pnp, 1)
              triggered == PnPTriggered(st, readerNames)
          IN  /\ readerStates_' = acc.store
              /\ EmitEvents(acc.events)
              /\ pnpTriggered' = triggered
              /\ listResult' = IF triggered THEN lr ELSE "none"
              /\ faults' = IF triggered /\ lr = "nolength" THEN faults - 1 ELSE faults
              /\ stateResult' = IF triggered
                                THEN StateResult(lr, MapOrder(hwReaders), stateOk)
                                ELSE "none"
    /\ wpc' = "loop"
    /\ cancelPending' = FALSE
    /\ states' = <<>> /\ readerNames' = <<>>
    /\ UNCHANGED namesCapacity
    /\ UNCHANGED <<iterationCount, freshResult, refreshResult, initReaders, envSteps>>
    /\ UNCHANGED workerFrame

(***************************************************************************)
(* Hardware: readers are plugged and unplugged, cards inserted and removed *)
(***************************************************************************)
hwFrame == <<running_, contextValid_, context_, tsfn_, monitorThread_, readerStates_,
             wpc, iterationCount, states, readerNames, namesCapacity, result, freshResult,
             jpc, lastOp, nStarts, chanState, chanPending, chanQueue, chanSeq, chanReceived,
             initReaders, nCtx, ctxReleases, cancelPending, faults, diffVars, inlineNames, cardVars, refreshVars>>

HwAttach(r) ==
    /\ WorkerAlive /\ envSteps < MaxEnvSteps
    /\ r \notin hwReaders
    /\ hwReaders' = hwReaders \cup {r}
    /\ envSteps' = envSteps + 1
    /\ NoEvents
    /\ UNCHANGED hwCard /\ UNCHANGED hwFrame

HwDetach(r) ==
    /\ WorkerAlive /\ envSteps < MaxEnvSteps
    /\ r \in hwReaders
    /\ hwReaders' = hwReaders \ {r}
    /\ hwCard' = [hwCard EXCEPT ![r] = 0]
    /\ envSteps' = envSteps + 1
    /\ NoEvents
    /\ UNCHANGED hwFrame

HwInsert(r, c) ==
    /\ WorkerAlive /\ envSteps < MaxEnvSteps
    /\ r \in hwReaders /\ hwCard[r] = 0
    /\ hwCard' = [hwCard EXCEPT ![r] = c]
    /\ envSteps' = envSteps + 1
    /\ NoEvents
    /\ UNCHANGED hwReaders /\ UNCHANGED hwFrame

HwRemove(r) ==
    /\ WorkerAlive /\ envSteps < MaxEnvSteps
    /\ r \in hwReaders /\ hwCard[r] # 0
    /\ hwCard' = [hwCard EXCEPT ![r] = 0]
    /\ envSteps' = envSteps + 1
    /\ NoEvents
    /\ UNCHANGED hwReaders /\ UNCHANGED hwFrame

Hardware ==
    \/ \E r \in Readers : HwAttach(r)
    \/ \E r \in Readers : HwDetach(r)
    \/ \E r \in Readers, c \in Cards : HwInsert(r, c)
    \/ \E r \in Readers : HwRemove(r)

(***************************************************************************)
(* Specifications                                                          *)
(*   Spec      the event stream of a session: Start, the worker, Stop, and *)
(*             the hardware changing under it.                             *)
(*   LifeSpec  the life cycle of the monitor object over several sessions: *)
(*             Start, Stop, destructor, delivery and finalization of the   *)
(*             event channels, the worker; the hardware is one reader      *)
(*             holding a card and does not change.                         *)
(*   FairStopSpec  one session over unchanging hardware in which the       *)
(*             worker thread keeps running and a join whose thread has     *)
(*             exited returns.                                             *)
(*   SlowConsumerSpec  one session, like FairStopSpec, over one reader     *)
(*             holding a card, with a consumer whose callback runs at any  *)
(*             pace or never.                                              *)
(*   DiffSpec  the presence diff applied to pairs of flag words.           *)
(*   RefreshSpec  UpdateReaderList applied to every store and hardware.    *)
(***************************************************************************)
SessionStart == nStarts < MaxSessions /\ Start

Next ==
    \/ SessionStart
    \/ StopBegin
    \/ StopFinish
    \/ W_Init
    \/ W_Loop
    \/ W_WaitExit
    \/ W_WaitTimeout
    \/ W_WaitError
    \/ W_WaitSuccess
    \/ Hardware

Spec == Init /\ [][Next]_vars

LifeNext ==
    \/ Start
    \/ StopBegin
    \/ StopFinish
    \/ Destroy
    \/ DestroyFinish
    \/ \E c \in 1..MaxStarts : Deliver(c)
    \/ \E c \in 1..MaxStarts : Finalize(c)
    \/ W_Init
    \/ W_Loop
    \/ W_WaitExit
    \/ W_WaitTimeout
    \/ W_WaitSuccess

LifeInit ==
    /\ MonitorInit
    /\ hwReaders = {"A"}
    /\ hwCard = [r \in Readers |-> IF r = "A" THEN 1 ELSE 0]
    /\ faults = 0 /\ inlineNames = {}
    /\ oldState = 0 /\ newState = 0 /\ diffResult = "unset"

LifeSpec == LifeInit /\ [][LifeNext]_vars

WorkerStep == W_Init \/ W_Loop \/ W_WaitExit \/ W_WaitTimeout \/ W_WaitSuccess

\* One session with unchanging hardware; every thread that can step does.
StopNext ==
    \/ SessionStart
    \/ StopBegin
    \/ StopFinish
    \/ W_Init
    \/ W_Loop
    \/ W_WaitExit
    \/ W_WaitTimeout
    \/ W_WaitError
    \/ W_WaitSuccess

\* One session on a service whose calls may fail.
FaultyInit ==
    /\ MonitorInit
    /\ hwReaders = {"A"}
    /\ hwCard = [r \in Readers |-> IF r = "A" THEN 1 ELSE 0]
    /\ faults = MaxFaults /\ inlineNames = {}
    /\ oldState = 0 /\ newState = 0 /\ diffResult = "unset"

FaultySpec == FaultyInit /\ [][StopNext]_vars

\* One session with one reader whose name may be short enough for
\* std::string to keep it inline (15 characters with libstdc++ and MSVC, 22
\* with libc++: "ACS ACR122 0" is).
InlineInit ==
    /\ MonitorInit
    /\ hwReaders = {"A"}
    /\ hwCard = [r \in Readers |-> IF r = "A" THEN 1 ELSE 0]
    /\ faults = 0 /\ inlineNames \in SUBSET Readers
    /\ oldState = 0 /\ newState = 0 /\ diffResult = "unset"

InlineSpec == InlineInit /\ [][StopNext]_vars

FairStopSpec ==
    /\ Init /\ [][StopNext]_vars
    /\ WF_vars(WorkerStep \/ W_WaitError)
    /\ WF_vars(StopFinish)

\* One session whose consumer runs its callback at any pace or never: the
\* worker thread keeps running and a join whose thread has exited returns,
\* but no delivery is ever required to happen.
ConsumerNext ==
    \/ SessionStart
    \/ StopBegin
    \/ StopFinish
    \/ \E c \in 1..MaxStarts : Deliver(c)
    \/ W_Init
    \/ W_Loop
    \/ W_WaitExit
    \/ W_WaitTimeout
    \/ W_WaitError
    \/ W_WaitSuccess

SlowConsumerSpec ==
    /\ LifeInit /\ [][ConsumerNext]_vars
    /\ WF_vars(WorkerStep \/ W_WaitError)
    /\ WF_vars(StopFinish)

(***************************************************************************)
(* DiffSpec: DetectCardStateChange applied to every pair of flag words     *)
(***************************************************************************)
DiffInit ==
    /\ MonitorInit
    /\ hwReaders = {} /\ hwCard = [r \in Readers |-> 0]
    /\ faults = 0 /\ inlineNames = {}
    /\ oldState \in FlagWords /\ newState \in FlagWords
    /\ diffResult = "unset"

Diff ==
    /\ diffResult = "unset"
    /\ diffResult' = DetectCardStateChange(oldState, newState)
    /\ UNCHANGED <<running_, contextValid_, context_, tsfn_, monitorThread_, readerStates_,
                   wpc, iterationCount, states, readerNames, namesCapacity, result, freshResult,
                   jpc, lastOp, nStarts, chanState, chanPending, chanQueue, chanSeq, chanReceived, emitted, firstEvent,
                   cardHist, lastMember, initReaders, nCtx, ctxReleases, cancelPending,
                   hwReaders, hwCard, envSteps, faults, oldState, newState, refreshVars,
                   inlineNames, cardVars>>

DiffSpec == DiffInit /\ [][Diff]_vars

(***************************************************************************)
(* RefreshSpec: UpdateReaderList applied to every store of a running       *)
(* session, over every hardware                                            *)
(***************************************************************************)
\* Entries a store can hold: unaware, empty, card present, reader unknown.
ReaderInfos ==
    { [lastState |-> SCARD_STATE_UNAWARE, atr |-> <<>>],
      [lastState |-> SCARD_STATE_EMPTY, atr |-> <<>>],
      [lastState |-> SCARD_STATE_UNKNOWN + SCARD_STATE_IGNORE, atr |-> <<>>] }
    \cup { [lastState |-> SCARD_STATE_PRESENT, atr |-> <<c>>] : c \in Cards }

Stores == UNION { [S -> ReaderInfos] : S \in SUBSET Readers }

\* A session whose worker is about to refresh its store.
RefreshInit ==
    /\ running_ = TRUE /\ contextValid_ = TRUE /\ context_ = 1 /\ tsfn_ = 1
    /\ monitorThread_ = "joinable"
    /\ readerStates_ \in Stores
    /\ wpc = "loop" /\ iterationCount = 0
    /\ states = <<>> /\ readerNames = <<>>
    /\ namesCapacity = 0
    /\ result = "success" /\ freshResult = "none"
    /\ refreshResult = "none"
    /\ pnpTriggered = TRUE /\ listResult = "none" /\ stateResult = "none"
    /\ jpc = "idle" /\ lastOp = "start" /\ nStarts = 1
    /\ chanState = [c \in 1..MaxStarts |-> IF c = 1 THEN "open" ELSE "none"]
    /\ chanPending = [c \in 1..MaxStarts |-> FALSE]
    /\ chanQueue = [c \in 1..MaxStarts |-> <<>>]
    /\ chanSeq = [c \in 1..MaxStarts |-> 0]
    /\ chanReceived = [c \in 1..MaxStarts |-> 0]
    /\ emitted = <<>>
    /\ firstEvent = [r \in Readers |-> "none"]
    /\ cardHist = [r \in Readers |-> <<>>]
    /\ lastMember = [r \in Readers |-> "none"]
    /\ initReaders = {}
    /\ nCtx = 1 /\ ctxReleases = [c \in 1..MaxStarts |-> 0]
    /\ cancelPending = FALSE /\ envSteps = 0
    /\ CardNone
    /\ HwInit
    /\ faults = 1 /\ inlineNames = {}
    /\ oldState = 0 /\ newState = 0 /\ diffResult = "unset"

Refresh ==
    /\ listResult = "none"
    /\ \E lr \in ListResults, stateOk \in BOOLEAN :
        /\ readerStates_' = UpdateReaderList(readerStates_, lr, MapOrder(hwReaders), stateOk)
        /\ listResult' = lr
        /\ stateResult' = StateResult(lr, MapOrder(hwReaders), stateOk)
    /\ UNCHANGED <<running_, contextValid_, context_, tsfn_, monitorThread_,
                   wpc, iterationCount, states, readerNames, namesCapacity, result, freshResult,
                   refreshResult, pnpTriggered, jpc, lastOp, nStarts, chanState,
                   chanPending, chanQueue, chanSeq, chanReceived,
                   emitted, firstEvent, cardHist, lastMember, initReaders, nCtx, ctxReleases,
                   cancelPending, hwReaders, hwCard, envSteps, faults, diffVars, inlineNames, cardVars>>

RefreshSpec == RefreshInit /\ [][Refresh]_vars

(***************************************************************************)
(* ChangeSpec: the loop of a running session from every store, over every  *)
(* hardware                                                                *)
(***************************************************************************)
ChangeNext ==
    \/ W_Loop
    \/ W_WaitTimeout
    \/ W_WaitSuccess

ChangeSpec == RefreshInit /\ [][ChangeNext]_vars

(***************************************************************************)
(* Claims                                                                  *)
(***************************************************************************)
\* Bit 0x10 of a flag word, by division.
Bit4(x) == (x \div 16) % 2 = 1

Present(x) == (x \div SCARD_STATE_PRESENT) % 2 = 1

\* C1: for every pair of flag words the presence diff is Inserted iff bit 0x10
\* is clear in old and set in new, Removed iff it is set in old and clear in
\* new, None otherwise, whatever the other bits are.
C1_PresenceDiff ==
    diffResult # "unset" =>
        /\ diffResult = (IF ~Bit4(oldState) /\ Bit4(newState) THEN "Inserted"
                         ELSE IF Bit4(oldState) /\ ~Bit4(newState) THEN "Removed"
                         ELSE "None")
        /\ \A o, n \in FlagWords :
             (Bit4(o) = Bit4(oldState) /\ Bit4(n) = Bit4(newState))
                => DetectCardStateChange(o, n) = diffResult

\* 0x102 -> 0x112 has been diffed as Inserted.
C1_Witness == oldState = 258 /\ newState = 274 /\ diffResult = "Inserted"

EventsOf(events, r, types) ==
    { i \in 1..Len(events) : events[i].reader = r /\ events[i].type \in types }

\* C2: the initial refresh is followed by exactly one reader-attached event
\* per reader it found and by nothing else, and the first event submitted for
\* each of these readers is that reader-attached event.
C2_InitialAttach ==
    [][ /\ (wpc = "init" /\ wpc' = "loop") =>
            /\ Len(emitted') = Cardinality(DOMAIN readerStates_')
            /\ \A r \in DOMAIN readerStates_' :
                 Cardinality(EventsOf(emitted', r, {"reader-attached"})) = 1
        /\ \A r \in initReaders' : firstEvent'[r] = "reader-attached" ]_vars

\* Both readers were found at start-up and a card event followed for one.
C2_Witness ==
    /\ initReaders = {"A", "B"}
    /\ \E r \in Readers : cardHist[r] # <<>> /\ cardHist[r][1] \in CardTypes

\* C3: per reader, two card-inserted events are separated by a card-removed
\* or reader-detached event, and two card-removed events by a card-inserted
\* or reader-detached event.
C3_Deduplicated ==
    \A r \in Readers : \A i \in 1..(Len(cardHist[r]) - 1) :
        cardHist[r][i] \in CardTypes => cardHist[r][i + 1] # cardHist[r][i]

\* A reader saw card-inserted, card-removed, card-inserted.
C3_Witness ==
    \E r \in Readers : cardHist[r] = <<"card-inserted", "card-removed", "card-inserted">>

C6_CancelNotAnError ==
    [][ (wpc = "waiting" /\ ~running_ /\ wpc' # "waiting") =>
          /\ wpc' = "exited"
          /\ emitted' = <<>>
          /\ readerStates_' = readerStates_ ]_vars

\* Stop cancelled a blocked wait and the worker has left the loop.
C6_Witness == jpc = "stop_join" /\ wpc = "exited" /\ result = "cancelled"

\* C7: a context is released only when the worker thread has exited.
C7_ReleaseAfterWorkerExit ==
    [][ \A c \in 1..MaxStarts :
          ctxReleases'[c] > ctxReleases[c] => wpc \in {"none", "exited"} ]_vars

\* C8: Stop closes (releases) a channel only after the worker has exited, the
\* worker submits events only to a channel that has not been closed, and no
\* queued event is delivered to the callback from a channel that has been
\* closed.
C8_CloseAfterWorkerExit ==
    [][ /\ \A c \in 1..MaxStarts :
             (chanState[c] = "open" /\ chanState'[c] # "open") => wpc \in {"none", "exited"}
        /\ emitted' # <<>> => (tsfn_ # 0 /\ chanState[tsfn_] = "open")
        /\ \A c \in 1..MaxStarts :
             (chanPending[c] /\ ~chanPending'[c]) => chanState[c] = "open" ]_vars

\* C9: a Stop that waits for the worker returns.
C9_StopTerminates == (jpc = "stop_join") ~> (jpc = "idle" /\ lastOp = "stop")

\* Stop has returned from a session whose worker was joined.
C9_Witness ==
    /\ jpc = "idle" /\ lastOp = "stop" /\ nCtx > 0
    /\ wpc = "none" /\ monitorThread_ = "none"

\* C10: no context is released twice, and once Stop has returned or the
\* monitor has been destroyed every established context has been released.
C10_ReleasedExactlyOnce ==
    /\ \A c \in 1..MaxStarts : ctxReleases[c] <= 1
    /\ ((jpc = "idle" /\ lastOp = "stop") \/ jpc = "destroyed") =>
          \A c \in 1..nCtx : ctxReleases[c] = 1

\* Positions of a worker thread that has not left MonitorLoop.
LiveWorker == {"init", "loop", "waiting"}

\* C11: a Start issued while a session runs (the flag is set or its worker is
\* alive) fails with an error and changes nothing: no context is established,
\* no thread is spawned, and context, store, channel and worker stay as they
\* were.
C11_StartWhileRunning ==
    [][ (nStarts' > nStarts /\ (running_ \/ wpc \in LiveWorker)) =>
          /\ lastOp' = "already_running"
          /\ UNCHANGED <<running_, contextValid_, context_, tsfn_, monitorThread_,
                         readerStates_, wpc, nCtx, chanState, jpc>> ]_vars

\* C12: a Start whose context establishment fails reports it to its caller
\* and leaves the monitor as it was: not running, no thread, no channel, no
\* valid context, and a later Start is accepted; and no Start that establishes
\* no context spawns a thread, opens a channel or sets the running flag.
C12_EstablishFailure ==
    [][ nStarts' > nStarts =>
          /\ lastOp' = "establish_failed" =>
               /\ ~running_'
               /\ UNCHANGED <<running_, contextValid_, context_, tsfn_, monitorThread_,
                              wpc, chanState, nCtx, readerStates_>>
               /\ StartOutcome(running_', TRUE, TRUE) = "ok"
          /\ nCtx' = nCtx =>
               /\ lastOp' # "start"
               /\ UNCHANGED <<running_, monitorThread_, wpc, tsfn_, chanState>> ]_vars

\* The first Start failed to establish a context and the monitor is idle as
\* after construction.
C12_Witness ==
    /\ lastOp = "establish_failed" /\ jpc = "idle"
    /\ ~running_ /\ ~contextValid_ /\ monitorThread_ = "none" /\ tsfn_ = 0
    /\ \A c \in 1..MaxStarts : chanState[c] = "none"

\* C13: while the monitor runs, every failure of a primitive called in the
\* loop (the blocking wait, the zero-timeout query after a timeout) is reported
\* by an error event, and the loop goes on to a further iteration.
C13_ErrorsReported ==
    [][ (wpc = "waiting" /\ wpc' # "waiting" /\ running_
         /\ (result' = "error" \/ freshResult' = "error")) =>
          /\ wpc' = "loop"
          /\ \E i \in 1..Len(emitted') : emitted'[i].type = "error" ]_vars

\* The entry a successful status query gives a reader.
TrueInfo(r) == [lastState |-> HwState(r), atr |-> HwAtr(r)]

WorkerMoved == wpc \in LiveWorker /\ wpc' # wpc /\ jpc' = jpc

\* C18 (as stated): the store is changed only by steps of the worker thread
\* that hold the mutex; no step of the JavaScript thread changes it.
C18_WorkerOnlyUnderLock ==
    [][ readerStates_' # readerStates_ => (WorkerMoved /\ wpc \in LockedSteps) ]_vars

\* C18 (amended): the store is changed by steps of the worker thread, which
\* hold the mutex except for the initial refresh, and by the JavaScript thread
\* only when Stop, having joined the worker, empties it; the JavaScript thread
\* never changes it while a worker is alive.
C18_StoreWriters ==
    [][ readerStates_' # readerStates_ =>
          \/ WorkerMoved /\ wpc \in LockedSteps \cup {"init"}
          \/ /\ jpc = "stop_join" /\ jpc' = "idle"
             /\ wpc \notin LiveWorker
             /\ readerStates_' = EmptyStore ]_vars

\* Stop has returned and has emptied a store that held reader A.
C18_Witness ==
    /\ jpc = "idle" /\ lastOp = "stop" /\ wpc = "none"
    /\ initReaders = {"A"} /\ readerStates_ = EmptyStore
    /\ chanSeq[1] > 0

\* The worker can take its next step with every primitive succeeding, which
\* is the step that submits whatever events are due.
CanProceed ==
    /\ wpc = "init" => ENABLED (W_Init /\ listResult' = "ok" /\ stateResult' = "ok")
    /\ (wpc = "loop" /\ running_) => ENABLED (W_Loop /\ refreshResult' # "error")
    /\ (wpc = "loop" /\ ~running_) => ENABLED W_Loop
    /\ (wpc = "waiting" /\ running_) =>
          /\ ENABLED (W_WaitTimeout /\ freshResult' # "error")
          /\ ENABLED (W_WaitSuccess /\ listResult' # "error" /\ stateResult' # "error")
          /\ ENABLED W_WaitError \/ envSteps >= MaxEnvSteps
    /\ (wpc = "waiting" /\ ~running_) => ENABLED W_WaitExit

\* C17: the worker never waits for the consumer: whatever its queue holds and
\* whether or not the callback ever runs, the worker can always take its
\* next step, submitting the events due in it, it leaves each position of the
\* loop it is in, and a Stop that joins it while events are queued returns.
C17_WorkerNeverWaits ==
    /\ []CanProceed
    /\ \A p \in LiveWorker : (wpc = p) ~> (wpc # p)
    /\ (jpc = "stop_join" /\ \E c \in 1..MaxStarts : chanQueue[c] # <<>>)
           ~> (jpc = "idle" /\ lastOp = "stop")

\* The worker submitted two events of which none was delivered, and Stop has
\* joined it and returned.
C17_Witness ==
    /\ jpc = "idle" /\ lastOp = "stop" /\ wpc = "none" /\ monitorThread_ = "none"
    /\ chanSeq[1] = 2 /\ chanReceived[1] = 0 /\ Len(chanQueue[1]) = 2

\* C19: no entry of the store has the CHANGED bit set in its flags.
C19_ChangedNeverStored ==
    \A r \in DOMAIN readerStates_ :
        BitAnd(readerStates_[r].lastState, SCARD_STATE_CHANGED) = 0

\* A successful wait reported reader A with PRESENT and CHANGED set: the event
\* carries both bits, the entry only PRESENT.
C19_Witness ==
    /\ wpc = "loop" /\ result = "success" /\ ~pnpTriggered
    /\ \E i \in 1..Len(emitted) :
         /\ emitted[i].reader = "A"
         /\ emitted[i].state = SCARD_STATE_PRESENT + SCARD_STATE_CHANGED
    /\ "A" \in DOMAIN readerStates_
    /\ readerStates_["A"].lastState = SCARD_STATE_PRESENT

\* C20: every event submitted has the documented shape: reader-detached and
\* error events carry flags 0 and no ATR, card-removed events carry no ATR,
\* and an event that carries an ATR is a reader-attached or card-inserted
\* event whose flags have PRESENT set, for a reader that holds the card with
\* that ATR.
C20_EventShapes ==
    \A i \in 1..Len(emitted) :
        LET e == emitted[i]
        IN  /\ e.type \in {"reader-detached", "error"} => (e.state = 0 /\ e.atr = <<>>)
            /\ e.type = "card-removed" => e.atr = <<>>
            /\ e.atr # <<>> =>
                 /\ e.type \in {"reader-attached", "card-inserted"}
                 /\ Present(e.state)
                 /\ e.reader \in hwReaders
                 /\ e.atr = <<hwCard[e.reader]>>

\* One reader-list change has produced reader-detached for A, with flags 0
\* and no ATR, and card-inserted for B with the ATR of its card.
C20_Witness ==
    /\ \E i \in 1..Len(emitted) :
         emitted[i] = EventData("reader-detached", "A", 0, <<>>)
    /\ \E i \in 1..Len(emitted) :
         /\ emitted[i].type = "card-inserted" /\ emitted[i].reader = "B"
         /\ emitted[i].atr = <<1>>

\* C21: when a Stop that found the monitor running returns, the monitor is as
\* it was before its first Start: running_ is clear, the worker has exited and
\* its thread is joined, the session's context has been released and is
\* marked invalid, and the store is empty; and a Start that follows is
\* accepted and begins a session with a new context, a new channel, a new
\* worker and an empty store.
C21_StopReturnsToIdle ==
    [][ /\ (jpc = "stop_join" /\ jpc' = "idle") =>
            /\ lastOp' = "stop"
            /\ ~running_'
            /\ wpc' = "none" /\ monitorThread_' = "none"
            /\ ~contextValid_' /\ context_' = 0
            /\ context_ # 0 /\ ctxReleases'[context_] = ctxReleases[context_] + 1
            /\ readerStates_' = EmptyStore
            /\ StartOutcome(running_', TRUE, TRUE) = "ok"
        /\ (nStarts' > nStarts /\ lastOp = "stop" /\ monitorThread_ = "none"
              /\ lastOp' = "start") =>
            /\ jpc' = "idle" /\ running_' /\ wpc' = "init"
            /\ contextValid_' /\ context_' = nCtx' /\ nCtx' = nCtx + 1
            /\ ctxReleases'[context_'] = 0
            /\ tsfn_' # tsfn_ /\ chanState[tsfn_'] = "none" /\ chanState'[tsfn_'] = "open"
            /\ readerStates_' = EmptyStore /\ iterationCount' = 0 ]_vars

\* A session that found reader A was stopped, and a second Start has begun a
\* fresh session on a new context.
C21_Witness ==
    /\ nStarts = 2 /\ lastOp = "start" /\ jpc = "idle" /\ wpc = "init"
    /\ initReaders = {} /\ readerStates_ = EmptyStore
    /\ chanSeq[1] > 0 /\ ctxReleases[1] = 1 /\ context_ = 2 /\ running_

\* C22: Stop always returns normally, whatever SCardCancel, the release of
\* the thread-safe function and SCardReleaseContext return: a Stop that began
\* its teardown ends with the monitor stopped and the caller back in control.
\* A Stop called while running_ is clear returns at once: it begins no join
\* and leaves the cancel flag, the thread, the channels, the contexts and the
\* store as they were.
C22_StopNeverFails ==
    [][ /\ (jpc = "stop_join" /\ jpc' # "stop_join") =>
            /\ jpc' = "idle" /\ lastOp' = "stop"
            /\ ~running_' /\ ~contextValid_' /\ readerStates_' = EmptyStore
        /\ (jpc = "idle" /\ ~running_) => jpc' # "stop_join"
        /\ (jpc = "idle" /\ ~running_ /\ nStarts' = nStarts /\ lastOp' = "stop") =>
            UNCHANGED <<running_, cancelPending, monitorThread_, wpc, tsfn_, chanState,
                        contextValid_, context_, ctxReleases, readerStates_, faults>> ]_vars

\* A session was stopped while SCardCancel, the release of the thread-safe
\* function and SCardReleaseContext all returned a failure, and Stop has
\* returned; a Stop called now finds running_ clear.
C22_Witness ==
    /\ lastOp = "stop" /\ jpc = "idle" /\ nStarts = 1 /\ faults = MaxFaults - 3
    /\ ~running_ /\ chanState[1] = "open" /\ monitorThread_ = "none"

\* The attach and detach events of a step, taken in order after a stream whose
\* last such event per reader is given by last, alternate per reader and begin
\* with reader-attached.
RECURSIVE Alternates(_, _, _)
Alternates(last, events, i) ==
    IF i > Len(events) THEN TRUE
    ELSE LET e == events[i]
         IN  IF e.reader \in Readers /\ e.type \in MemberTypes
             THEN /\ e.type = "reader-attached" => last[e.reader] # "reader-attached"
                  /\ e.type = "reader-detached" => last[e.reader] = "reader-attached"
                  /\ Alternates([last EXCEPT ![e.reader] = e.type], events, i + 1)
             ELSE Alternates(last, events, i + 1)

\* C23: within a session the reader-attached and reader-detached events of
\* each reader alternate and the first of them is reader-attached: every
\* reader-detached follows a reader-attached of that reader with no other
\* attach or detach event of it in between, and every reader-attached is the
\* reader's first such event or follows its reader-detached. The readers
\* whose last such event is reader-attached are the readers of the store.
C23_MembershipAlternates ==
    [][ /\ Alternates(lastMember, emitted', 1)
        /\ wpc' \in {"loop", "waiting"} =>
             \A r \in Readers :
                 r \in DOMAIN readerStates_' <=> lastMember'[r] = "reader-attached" ]_vars

\* A reader was announced at start-up, reported detached when it was
\* unplugged, and has just been reported attached again.
C23_Witness ==
    \E r \in Readers :
        /\ firstEvent[r] = "reader-attached"
        /\ "reader-detached" \in Range(cardHist[r])
        /\ lastMember[r] = "reader-attached"
        /\ \E i \in 1..Len(emitted) :
               emitted[i].type = "reader-attached" /\ emitted[i].reader = r

\* C24: the step that handles a reader-list change emits exactly one
\* reader-attached for each name the store holds after the refresh and did
\* not hold before it, exactly one reader-detached for each name it held
\* before and no longer holds, and no attach or detach event for a name it
\* holds before and after, or for any other name.
C24_ListChangeDiff ==
    [][ (wpc = "waiting" /\ result' = "success" /\ pnpTriggered') =>
          LET before == DOMAIN readerStates_
              after == DOMAIN readerStates_'
          IN  \A r \in Readers :
                /\ Cardinality(EventsOf(emitted', r, {"reader-attached"}))
                      = (IF r \in after \ before THEN 1 ELSE 0)
                /\ Cardinality(EventsOf(emitted', r, {"reader-detached"}))
                      = (IF r \in before \ after THEN 1 ELSE 0) ]_vars

\* One reader-list change found a reader gone and another one new: the step
\* emitted a reader-detached for the first and a reader-attached for the second.
C24_Witness ==
    /\ pnpTriggered /\ listResult = "ok"
    /\ \E r, q \in Readers :
          /\ r # q
          /\ EventsOf(emitted, r, {"reader-attached"}) # {}
          /\ EventsOf(emitted, q, {"reader-detached"}) # {}
          /\ r \in DOMAIN readerStates_ /\ q \notin DOMAIN readerStates_

\* C25: the step that handles a reader-list change emits, for every reader
\* the store holds before and after it, exactly one card-inserted and no
\* card-removed when the PRESENT bit of its entry went from clear to set,
\* exactly one card-removed and no card-inserted when it went from set to
\* clear, and no card event when the bit is the same before and after.
C25_ListChangePresence ==
    [][ (wpc = "waiting" /\ result' = "success" /\ pnpTriggered') =>
          \A r \in DOMAIN readerStates_ \cap DOMAIN readerStates_' :
            LET wasPresent == Present(readerStates_[r].lastState)
                isPresent == Present(readerStates_'[r].lastState)
            IN  /\ Cardinality(EventsOf(emitted', r, {"card-inserted"}))
                      = (IF ~wasPresent /\ isPresent THEN 1 ELSE 0)
                /\ Cardinality(EventsOf(emitted', r, {"card-removed"}))
                      = (IF wasPresent /\ ~isPresent THEN 1 ELSE 0) ]_vars

\* A reader-list change announced a new reader, and the comparison of the
\* snapshot with the refreshed store reported a card inserted into a reader
\* that stayed: its event carries the stored flags, without the changed bit.
C25_Witness ==
    /\ pnpTriggered /\ listResult = "ok" /\ stateResult = "ok"
    /\ \E r, q \in Readers :
          /\ r # q
          /\ EventsOf(emitted, q, {"reader-attached"}) # {}
          /\ \E i \in EventsOf(emitted, r, {"card-inserted"}) :
                /\ BitAnd(emitted[i].state, SCARD_STATE_CHANGED) = 0
                /\ emitted[i].state = readerStates_[r].lastState
          /\ firstEvent[r] = "reader-attached"

\* C26 (as stated): a step that handles a reader-list change handles nothing
\* else: its store and its events are those of the reader-list change made on
\* the store as it was when the wait returned.
C26_OthersDeferred ==
    [][ (wpc = "waiting" /\ result' = "success" /\ pnpTriggered') =>
          \E stateOk \in BOOLEAN :
            LET p == PnPChange([store |-> readerStates_, events |-> <<>>],
                               [listResult |-> listResult',
                                newNames |-> MapOrder(hwReaders),
                                stateOk |-> stateOk])
            IN  readerStates_' = p.store /\ emitted' = p.events ]_vars

\* The card events of a step that carry the changed bit: those of the changed
\* reader entries (410-412).
AppliedEvents(events) ==
    { i \in 1..Len(events) :
        events[i].type \in CardTypes /\ BitAnd(events[i].state, SCARD_STATE_CHANGED) # 0 }

\* C26 (amended): the sentinel is the last entry of the wait-set, so the
\* changed reader entries of a result are applied before its reader-list
\* change is handled. While the worker waits, every result that flags the
\* sentinel and the entry of a reader whose stored PRESENT bit differs from
\* the reported one yields a card event with the reported flags for that
\* reader, and when the enumeration then fails the reader's entry holds the
\* reported flags and ATR. In a step that handles a reader-list change every such event is for a
\* reader of the store whose stored PRESENT bit differed from the reported
\* one, it precedes every event of the reader-list change, and when the
\* enumeration fails every stored entry is either as it was or holds the
\* reported flags and ATR.
C26_EntriesAppliedFirst ==
    /\ [](wpc = "waiting" =>
            \A flagged \in SUBSET (1..Len(states)), lr \in ListResults, stateOk \in BOOLEAN :
              LET st == WaitAnswer(states, readerNames, flagged)
                  pnp == [listResult |-> lr, newNames |-> MapOrder(hwReaders),
                          stateOk |-> stateOk]
                  acc == ProcessChanges([store |-> readerStates_, events |-> <<>>],
                                        st, readerNames, pnp, 1)
              IN  PnPTriggered(st, readerNames) =>
                    \A i \in flagged :
                      LET r == readerNames[i]
                      IN  (r # PnP /\ r \in DOMAIN readerStates_) =>
                            /\ Present(readerStates_[r].lastState) # Present(HwState(r))
                                 => \E k \in AppliedEvents(acc.events) :
                                       /\ acc.events[k].reader = r
                                       /\ acc.events[k].state = HwState(r) + SCARD_STATE_CHANGED
                            /\ lr = "error" => acc.store[r] = TrueInfo(r))
    /\ [][ (wpc = "waiting" /\ result' = "success" /\ pnpTriggered') =>
            /\ \A i \in AppliedEvents(emitted') :
                 LET e == emitted'[i]
                 IN  /\ e.reader \in DOMAIN readerStates_
                     /\ e.state = HwState(e.reader) + SCARD_STATE_CHANGED
                     /\ Present(readerStates_[e.reader].lastState) # Present(e.state)
                     /\ (e.type = "card-inserted") <=> Present(e.state)
            /\ \A i \in AppliedEvents(emitted') :
                 \A j \in (1..Len(emitted')) \ AppliedEvents(emitted') : i < j
            /\ listResult' = "error" =>
                 /\ DOMAIN readerStates_' = DOMAIN readerStates_
                 /\ \A r \in DOMAIN readerStates_ :
                      readerStates_'[r] \in {readerStates_[r], TrueInfo(r)} ]_vars

\* One result flagged a reader whose card had been inserted and the sentinel:
\* the step emitted card-inserted with the reported flags, changed bit
\* included, and after it a reader-attached for the new reader.
C26_Witness ==
    /\ pnpTriggered /\ listResult = "ok"
    /\ \E i \in AppliedEvents(emitted) :
          /\ emitted[i].type = "card-inserted"
          /\ \E j \in 1..Len(emitted) :
                i < j /\ emitted[j].type = "reader-attached"
                      /\ emitted[j].reader # emitted[i].reader

\* C27: while the worker waits, for every result that flags some entries but
\* not the sentinel, the loop over the result leaves the store with the same
\* names and, for each reader entry: if the entry is flagged the stored flags
\* are the reported flags with the changed bit cleared, the stored ATR is the
\* reported ATR, and there is one card event for the reader iff the reported
\* PRESENT bit differs from the stored one, card-inserted when it became set
\* and card-removed when it became clear; if the entry is not flagged the
\* reader's entry is as before and there is no event for the reader. No other
\* event is emitted. Every step that handles such a result leaves each entry
\* either as it was or holding the true flags and ATR.
C27_ChangedEntriesApplied ==
    /\ [](wpc = "waiting" =>
            \A flagged \in (SUBSET (1..Len(states))) \ {{}}, lr \in ListResults, stateOk \in BOOLEAN :
              LET st == WaitAnswer(states, readerNames, flagged)
                  pnp == [listResult |-> lr, newNames |-> MapOrder(hwReaders),
                          stateOk |-> stateOk]
                  acc == ProcessChanges([store |-> readerStates_, events |-> <<>>],
                                        st, readerNames, pnp, 1)
              IN  ~PnPTriggered(st, readerNames) =>
                    /\ DOMAIN acc.store = DOMAIN readerStates_
                    /\ \A i \in 1..Len(st) : readerNames[i] # PnP =>
                         LET r == readerNames[i]
                             was == Present(readerStates_[r].lastState)
                             is == Present(st[i].dwEventState)
                             all == EventsOf(acc.events, r, {"card-inserted", "card-removed",
                                        "reader-attached", "reader-detached", "error"})
                         IN  IF i \in flagged
                             THEN /\ acc.store[r].lastState
                                       = BitClear(st[i].dwEventState, SCARD_STATE_CHANGED)
                                  /\ BitAnd(acc.store[r].lastState, SCARD_STATE_CHANGED) = 0
                                  /\ acc.store[r].atr = st[i].atr
                                  /\ Cardinality(EventsOf(acc.events, r, {"card-inserted"}))
                                       = (IF ~was /\ is THEN 1 ELSE 0)
                                  /\ Cardinality(EventsOf(acc.events, r, {"card-removed"}))
                                       = (IF was /\ ~is THEN 1 ELSE 0)
                                  /\ Cardinality(all) = (IF was # is THEN 1 ELSE 0)
                             ELSE /\ acc.store[r] = readerStates_[r]
                                  /\ all = {}
                    /\ \A k \in 1..Len(acc.events) : acc.events[k].reader \in DOMAIN readerStates_)
    /\ [][ (wpc = "waiting" /\ result' = "success" /\ ~pnpTriggered') =>
            /\ DOMAIN readerStates_' = DOMAIN readerStates_
            /\ \A r \in DOMAIN readerStates_ :
                 /\ readerStates_'[r] \in {readerStates_[r], TrueInfo(r)}
                 /\ readerStates_'[r] = readerStates_[r] => EventsOf(emitted', r, CardTypes) = {} ]_vars

\* A result without a reader-list change flagged one of two readers whose
\* cards had both been inserted: the flagged reader's entry holds the reported
\* flags and ATR and its card-inserted was emitted, the other reader's entry
\* was left as it was and nothing was emitted for it.
C27_Witness ==
    /\ wpc = "loop" /\ result = "success" /\ ~pnpTriggered /\ Len(emitted) = 1
    /\ \E r, q \in DOMAIN readerStates_ :
          /\ r # q
          /\ emitted[1].type = "card-inserted" /\ emitted[1].reader = r
          /\ readerStates_[r] = TrueInfo(r) /\ Present(readerStates_[r].lastState)
          /\ readerStates_[r].atr # <<>>
          /\ ~Present(readerStates_[q].lastState) /\ Present(HwState(q))

C29_StoreNamesAreEnumerated ==
    [][ /\ listResult' = "ok" =>
            /\ DOMAIN readerStates_' = Range(MapOrder(hwReaders))
            /\ Cardinality(DOMAIN readerStates_') = Len(MapOrder(hwReaders))
            /\ \A n \in DOMAIN readerStates_ \ hwReaders : n \notin DOMAIN readerStates_'
        /\ ListEmpty(listResult') => DOMAIN readerStates_' = {} ]_vars

\* A Refresh enumerated reader B alone and its status query failed: the store
\* holds B, added with flags unaware, and nothing else.
C29_Witness ==
    /\ listResult = "ok" /\ stateResult = "error"
    /\ hwReaders = {"B"} /\ hwCard["B"] # 0
    /\ DOMAIN readerStates_ = {"B"}
    /\ readerStates_["B"] = [lastState |-> SCARD_STATE_UNAWARE, atr |-> <<>>]

\* C30: every wait-set passed to the blocking wait has exactly one entry for
\* each reader of the store, naming that reader and carrying its stored flags,
\* followed by one sentinel entry with flags UNAWARE, which is last; no reader
\* name appears twice.
C30_WaitSetMirrorsStore ==
    wpc = "waiting" =>
        LET ord == MapOrder(DOMAIN readerStates_)
        IN  /\ Len(states) = Len(ord) + 1
            /\ \A i \in 1..Len(ord) :
                  /\ states[i].szReader = ord[i]
                  /\ states[i].dwCurrentState = readerStates_[ord[i]].lastState
            /\ states[Len(states)].szReader = PnP
            /\ states[Len(states)].dwCurrentState = SCARD_STATE_UNAWARE
            /\ \A i, j \in 1..Len(states) :
                  i # j => states[i].szReader # states[j].szReader


\* A step in which the worker emits events: the start-up refresh or the
\* handling of a wait result.
WorkerEmits == wpc \in {"init", "waiting"} /\ wpc' = "loop"

\* C31: when a step announces a reader as attached, the reader holds a card and
\* the status query of the refresh succeeded, the reader-attached event has
\* PRESENT set and carries the ATR of the card, the step emits no
\* card-inserted for that reader, and the reader's entry is stored with PRESENT
\* set (so no later comparison finds the card new).
C31_CardAnnouncedByAttach ==
    [][ WorkerEmits =>
          \A i \in 1..Len(emitted') :
            LET e == emitted'[i]
            IN  (e.type = "reader-attached" /\ stateResult' = "ok" /\ HwAtr(e.reader) # <<>>) =>
                  /\ Present(e.state)
                  /\ e.atr = HwAtr(e.reader)
                  /\ EventsOf(emitted', e.reader, {"card-inserted"}) = {}
                  /\ e.reader \in DOMAIN readerStates_'
                  /\ Present(readerStates_'[e.reader].lastState)
                  /\ readerStates_'[e.reader].atr = HwAtr(e.reader) ]_vars

\* A reader that was not there at start-up has been attached holding a card:
\* the reader-list change announced it with PRESENT and the ATR, and the
\* stream holds no card event for it.
C31_Witness ==
    /\ result = "success" /\ pnpTriggered /\ stateResult = "ok"
    /\ \E r \in Readers \ initReaders :
          /\ hwCard[r] # 0
          /\ \E i \in EventsOf(emitted, r, {"reader-attached"}) :
                Present(emitted[i].state) /\ emitted[i].atr = <<hwCard[r]>>
          /\ cardHist[r] = <<>>


\* The last attach or detach event of reader r before the i-th event of a
\* step, given the last one before the step.
MemberBefore(last, events, i, r) ==
    ObserveMember(last, SubSeq(events, 1, i - 1), 1)[r]

\* C32: every card-inserted and card-removed event is emitted while its reader
\* is attached: the last attach or detach event for the reader's name that
\* precedes it in the stream is a reader-attached.
C32_CardEventsWhileAttached ==
    [][ \A i \in 1..Len(emitted') :
          emitted'[i].type \in CardTypes =>
            /\ emitted'[i].reader \in Readers
            /\ MemberBefore(lastMember, emitted', i, emitted'[i].reader) = "reader-attached" ]_vars

\* A reader was attached after start-up and then a card was inserted into it:
\* its card-inserted follows its reader-attached.
C32_Witness ==
    \E r \in Readers \ initReaders :
        /\ lastMember[r] = "reader-attached"
        /\ firstEvent[r] = "reader-attached"
        /\ cardHist[r] = <<"card-inserted">>
        /\ EventsOf(emitted, r, {"card-inserted"}) # {}
        /\ EventsOf(emitted, r, {"reader-attached"}) = {}


\* A step that handles a reader-list change.
ListChangeStep == wpc = "waiting" /\ result' = "success" /\ pnpTriggered'

\* C33: in a step that handles a reader-list change, a reader that was stored
\* with PRESENT set and is no longer in the store gets exactly one
\* reader-detached and no card event.
C33_OnlyDetached ==
    [][ ListChangeStep =>
          \A r \in DOMAIN readerStates_ \ DOMAIN readerStates_' :
            Present(readerStates_[r].lastState) =>
              /\ Cardinality(EventsOf(emitted', r, {"reader-detached"})) = 1
              /\ EventsOf(emitted', r, CardTypes) = {} ]_vars

\* C33 (amended): in a step that handles a reader-list change, a reader that
\* was stored with PRESENT set and is no longer in the store gets exactly one
\* reader-detached, with flags 0 and no ATR, and no card-inserted; the
\* reader-list change itself emits no card event for it: a card-removed for
\* the reader comes only from the reader's own changed entry of the same
\* result (it carries the changed bit), there is at most one, and it precedes
\* the reader-detached.
C33_DetachedAfterOwnEntry ==
    [][ ListChangeStep =>
          \A r \in DOMAIN readerStates_ \ DOMAIN readerStates_' :
            Present(readerStates_[r].lastState) =>
              /\ Cardinality(EventsOf(emitted', r, {"reader-detached"})) = 1
              /\ \A d \in EventsOf(emitted', r, {"reader-detached"}) :
                    /\ emitted'[d] = EventData("reader-detached", r, 0, <<>>)
                    /\ \A c \in EventsOf(emitted', r, CardTypes) : c < d
              /\ EventsOf(emitted', r, {"card-inserted"}) = {}
              /\ EventsOf(emitted', r, {"card-removed"}) \subseteq AppliedEvents(emitted')
              /\ Cardinality(EventsOf(emitted', r, {"card-removed"})) <= 1 ]_vars

\* Reader A, found at start-up holding a card, was unplugged; the result
\* flagged the sentinel alone: reader-detached is the only event for A, of
\* the step and of the stream since its reader-attached.
C33_Witness ==
    /\ result = "success" /\ pnpTriggered /\ listResult \in {"ok", "noreaders"}
    /\ "A" \in initReaders /\ "A" \notin DOMAIN readerStates_
    /\ emitted = <<EventData("reader-detached", "A", 0, <<>>)>>
    /\ cardHist["A"] = <<"reader-detached">>


\* C34: isRunning is true only while the worker is in MonitorLoop, and the
\* worker leaves MonitorLoop only when the running flag is clear and a Stop or
\* the destructor, which cleared it, is waiting in its join.
C34_RunningOnlyWhileActive ==
    /\ []((running_ /\ jpc # "crashed") => wpc \in LiveWorker)
    /\ [][ (wpc \in LiveWorker /\ wpc' = "exited") =>
              (~running_ /\ jpc \in {"stop_join", "dtor_join"}) ]_vars


\* C35: while Stop waits in its join and the worker is in the blocking wait,
\* every result the wait can return (success, timeout, error, cancelled) takes
\* the worker out of the loop, and the step that ends the wait leaves the store
\* as it was, emits nothing and submits nothing to the channel.
C35_ResultDiscardedAfterStop ==
    /\ []((jpc = "stop_join" /\ wpc = "waiting") =>
            \A res \in {"success", "timeout", "error", "cancelled"} :
                WaitBranch(running_, res) = "exit")
    /\ [][ (jpc = "stop_join" /\ wpc = "waiting" /\ wpc' # "waiting") =>
              /\ wpc' = "exited"
              /\ result' \in {"success", "timeout", "error", "cancelled"}
              /\ readerStates_' = readerStates_
              /\ emitted' = <<>>
              /\ chanQueue' = chanQueue /\ chanSeq' = chanSeq
              /\ firstEvent' = firstEvent /\ cardHist' = cardHist ]_vars

\* Stop was requested while the worker waited; the wait returned success
\* although a card had been inserted into a stored reader since the store was
\* last written: the worker has left the loop, the store still shows the
\* reader without the card and nothing was emitted.
C35_Witness ==
    /\ jpc = "stop_join" /\ wpc = "exited" /\ result = "success"
    /\ emitted = <<>>
    /\ \E r \in DOMAIN readerStates_ :
          /\ hwCard[r] # 0
          /\ ~Present(readerStates_[r].lastState)
          /\ cardHist[r] = <<>>


\* C36: the flags of every card-inserted event have PRESENT set and the flags
\* of every card-removed event have PRESENT clear, whichever step emitted it.
C36_FlagsAgreeWithKind ==
    \A i \in 1..Len(emitted) :
        /\ emitted[i].type = "card-inserted" =>
              BitAnd(emitted[i].state, SCARD_STATE_PRESENT) = SCARD_STATE_PRESENT
        /\ emitted[i].type = "card-removed" =>
              BitAnd(emitted[i].state, SCARD_STATE_PRESENT) = 0

\* One wait result announced the removal of the card of reader A by A's own
\* changed entry and the insertion of a card into reader B by the comparison
\* of the reader-list change.
C36_Witness ==
    /\ result = "success" /\ pnpTriggered
    /\ \E i \in AppliedEvents(emitted) :
          /\ emitted[i].type = "card-removed"
          /\ BitAnd(emitted[i].state, SCARD_STATE_PRESENT) = 0
          /\ \E j \in (1..Len(emitted)) \ AppliedEvents(emitted) :
                /\ emitted[j].type = "card-inserted"
                /\ emitted[j].reader # emitted[i].reader
                /\ BitAnd(emitted[j].state, SCARD_STATE_PRESENT) # 0


\* The events of a step that carry flags of a reader: reader-attached,
\* card-inserted and card-removed.
FlagTypes == {"reader-attached", "card-inserted", "card-removed"}

\* C37: every reader-attached, card-inserted and card-removed event carries
\* flags with the changed bit clear, and the last such event a step emits for a
\* reader that is still stored carries the flags the store holds for the
\* reader after the step.
C37_EventFlagsAsStored ==
    [][ \A i \in 1..Len(emitted') :
          LET e == emitted'[i]
          IN  e.type \in FlagTypes =>
                /\ BitAnd(e.state, SCARD_STATE_CHANGED) = 0
                /\ (/\ e.reader \in DOMAIN readerStates_'
                    /\ \A j \in EventsOf(emitted', e.reader, FlagTypes) : j <= i)
                      => readerStates_'[e.reader].lastState = e.state ]_vars


\* C38: a reader-list change whose enumeration fails with an error other than
\* "no readers available" has no effect of its own: while the worker waits,
\* every result that flags the sentinel leaves, when the enumeration fails,
\* the store and the events exactly as the same result without the sentinel
\* flagged would (the store as the changed reader entries left it, and no
\* reader-attached, reader-detached or card event from the list change).
C38_FailedEnumerationKeepsStore ==
    wpc = "waiting" =>
        \A flagged \in SUBSET (1..Len(states)),
           lr \in ListResults \ {"ok", "noreaders"}, stateOk \in BOOLEAN :
            LET acc0 == [store |-> readerStates_, events |-> <<>>]
                pnp == [listResult |-> lr, newNames |-> MapOrder(hwReaders),
                        stateOk |-> stateOk]
                with == WaitAnswer(states, readerNames, flagged \cup {Len(states)})
                without == WaitAnswer(states, readerNames, flagged \ {Len(states)})
            IN  /\ PnPTriggered(with, readerNames)
                /\ ~PnPTriggered(without, readerNames)
                /\ ProcessChanges(acc0, with, readerNames, pnp, 1)
                     = ProcessChanges(acc0, without, readerNames, pnp, 1)


(***************************************************************************)
(* Card session (src/src/pcsc_card.cpp).  One card object, wrapped around  *)
(* the handle returned by a successful connect.  Its methods run on the    *)
(* JavaScript thread; Transmit, Control and Reconnect queue a worker that  *)
(* carries a copy of the handle and calls the primitive on a pool thread.  *)
(***************************************************************************)
MaxCardCalls == 4    \* method calls on one card object (CardSpec)

NotConnected == "Card is not connected"

GuardedOps == {"transmit", "control", "getStatus", "reconnect"}

\* Disconnect, lines 215-216, with the mistake of keeping the session when
\* the primitive fails.
AfterDisconnect_keepOnFailure(res, h) ==
    IF res = "success" THEN [connected_ |-> FALSE, card_ |-> 0]
    ELSE [connected_ |-> TRUE, card_ |-> h]

\* What Disconnect leaves in the object once SCardDisconnect has returned
\* res for handle h.
AfterDisconnect(res, h) == [connected_ |-> FALSE, card_ |-> 0]

\* Removal of the i-th queued worker.
WithoutWorker(q, i) == [j \in 1..(Len(q) - 1) |-> IF j < i THEN q[j] ELSE q[j + 1]]

\* NewInstance: the object a successful connect hands to JavaScript.
NewInstance ==
    /\ cardObj = "none"
    /\ cardObj' = "alive"
    /\ card_' = 1
    /\ connected_' = TRUE
    /\ handleOpen' = TRUE
    /\ UNCHANGED <<disconnectCalls, primitiveCalls, cardWorkers, cardCalls, lastCall,
                   workerResult, disconnected, monitorVars>>

\* The exported constructor called from JavaScript: an object with no handle.
PCSCCard ==
    /\ cardObj = "none"
    /\ cardObj' = "alive"
    /\ card_' = 0
    /\ connected_' = FALSE
    /\ UNCHANGED <<handleOpen, disconnectCalls, primitiveCalls, cardWorkers, cardCalls,
                   lastCall, workerResult, disconnected, monitorVars>>

\* A method that answers with a promise: guard, argument checks, then a
\* queued worker holding the current handle.
QueueCall(op, argChoices) ==
    /\ cardObj = "alive"
    /\ cardCalls < MaxCardCalls
    /\ cardCalls' = cardCalls + 1
    /\ IF ~connected_
       THEN /\ lastCall' = [op |-> op, outcome |-> NotConnected]
            /\ UNCHANGED cardWorkers
       ELSE \E argsOk \in argChoices :
            IF ~argsOk
            THEN /\ lastCall' = [op |-> op, outcome |-> "TypeError"]
                 /\ UNCHANGED cardWorkers
            ELSE /\ lastCall' = [op |-> op, outcome |-> "promise"]
                 /\ cardWorkers' = Append(cardWorkers, [op |-> op, card_ |-> card_])
    /\ UNCHANGED <<cardObj, connected_, card_, handleOpen, disconnectCalls, primitiveCalls,
                   workerResult, disconnected, monitorVars>>

Transmit == QueueCall("transmit", BOOLEAN)

Control == QueueCall("control", BOOLEAN)

\* Reconnect takes defaults for every argument it does not recognise.
Reconnect == QueueCall("reconnect", {TRUE})

GetStatus ==
    /\ cardObj = "alive"
    /\ cardCalls < MaxCardCalls
    /\ cardCalls' = cardCalls + 1
    /\ IF ~connected_
       THEN /\ lastCall' = [op |-> "getStatus", outcome |-> NotConnected]
            /\ UNCHANGED primitiveCalls
       ELSE \E res \in {"success", "error"} :
            /\ res = "success" => handleOpen
            /\ primitiveCalls' = primitiveCalls + 1
            /\ lastCall' = [op |-> "getStatus",
                            outcome |-> IF res = "success" THEN "status" ELSE "error"]
    /\ UNCHANGED <<cardObj, connected_, card_, handleOpen, disconnectCalls, cardWorkers,
                   workerResult, disconnected, monitorVars>>

Disconnect ==
    /\ cardObj = "alive"
    /\ cardCalls < MaxCardCalls
    /\ cardCalls' = cardCalls + 1
    /\ IF ~connected_
       THEN /\ lastCall' = [op |-> "disconnect", outcome |-> "undefined"]
            /\ UNCHANGED <<connected_, card_, handleOpen, disconnectCalls, primitiveCalls,
                           disconnected>>
       ELSE \E res \in {"success", "error"} :
            /\ disconnectCalls' = disconnectCalls + 1
            /\ primitiveCalls' = primitiveCalls + 1
            /\ handleOpen' = (handleOpen /\ res # "success")
            /\ connected_' = AfterDisconnect(res, card_).connected_
            /\ card_' = AfterDisconnect(res, card_).card_
            /\ lastCall' = [op |-> "disconnect",
                            outcome |-> IF res = "success" THEN "undefined" ELSE "error"]
            /\ disconnected' = TRUE
    /\ UNCHANGED <<cardObj, cardWorkers, workerResult, monitorVars>>

\* ~PCSCCard: the object is collected; queued workers outlive it.
Destructor ==
    /\ cardObj = "alive"
    /\ cardObj' = "destroyed"
    /\ IF connected_ /\ card_ # 0
       THEN \E res \in {"success", "error"} :
            /\ disconnectCalls' = disconnectCalls + 1
            /\ primitiveCalls' = primitiveCalls + 1
            /\ handleOpen' = (handleOpen /\ res # "success")
            /\ connected_' = FALSE
            /\ card_' = 0
       ELSE UNCHANGED <<connected_, card_, handleOpen, disconnectCalls, primitiveCalls>>
    /\ UNCHANGED <<cardWorkers, cardCalls, lastCall, workerResult, disconnected, monitorVars>>

\* Execute of a queued worker, then OnOK: the primitive is called with the
\* worker's copy of the handle and the promise settles with its result.
Execute ==
    /\ \E i \in 1..Len(cardWorkers), res \in {"success", "error"} :
        /\ res = "success" => handleOpen
        /\ primitiveCalls' = primitiveCalls + 1
        /\ workerResult' = res
        /\ cardWorkers' = WithoutWorker(cardWorkers, i)
    /\ UNCHANGED <<cardObj, connected_, card_, handleOpen, disconnectCalls, cardCalls,
                   lastCall, disconnected, monitorVars>>

CardNext ==
    \/ NewInstance
    \/ PCSCCard
    \/ Transmit
    \/ Control
    \/ Reconnect
    \/ GetStatus
    \/ Disconnect
    \/ Destructor
    \/ Execute

\* No card object yet; the monitor stays unused and no reader is attached.
CardInit ==
    /\ MonitorInit
    /\ hwReaders = {} /\ hwCard = [r \in Readers |-> 0]
    /\ faults = 0 /\ inlineNames = {}
    /\ oldState = 0 /\ newState = 0 /\ diffResult = "unset"

CardSpec == CardInit /\ [][CardNext]_vars

(***************************************************************************)
(* C39: once Disconnect has been called on a connected card the card is    *)
(* not connected, whatever SCardDisconnect returned; every later transmit, *)
(* control, getStatus or reconnect is rejected with "Card is not           *)
(* connected" and neither calls a primitive nor queues a worker; a later   *)
(* Disconnect returns undefined and changes nothing; and SCardDisconnect   *)
(* is called at most once on the handle, Disconnect and destructor taken   *)
(* together.                                                               *)
(***************************************************************************)
C39_DisconnectIsFinal ==
    /\ [](disconnected => ~connected_ /\ card_ = 0)
    /\ [](disconnectCalls <= 1)
    /\ [][(disconnected /\ cardCalls' # cardCalls) =>
            /\ UNCHANGED <<connected_, card_, handleOpen, disconnectCalls,
                           primitiveCalls, cardWorkers>>
            /\ lastCall'.op \in GuardedOps => lastCall'.outcome = NotConnected
            /\ lastCall'.op = "disconnect" => lastCall'.outcome = "undefined"]_vars

\* Disconnect failed, a later transmit was rejected, and the object was then
\* destroyed without a second SCardDisconnect.
C39_Witness ==
    /\ disconnected
    /\ handleOpen
    /\ lastCall = [op |-> "transmit", outcome |-> NotConnected]
    /\ cardCalls >= 3
    /\ cardObj = "destroyed"
    /\ disconnectCalls = 1

====
